---- MODULE Spec2Model ----
\* Reconciliation and risk-control loop of the scalping bot: PositionTracker,
\* TpSlManager (ProtectionManager), EntryExecutor and the control loop of main(),
\* against a nondeterministic exchange.
\*
\* Numbers: quantities and prices are integers counting units of 1e-8, the
\* tolerance of PositionTracker.sync_from_exchange, so Tolerance == 1.
EXTENDS Integers, Sequences, FiniteSets, TLC

VARIABLES
  pc,                  \* where the control loop (or the harness) stands
  position,            \* PositionTracker.position
  tp_order_id,         \* TpSlManager.tp_order_id
  sl_order_id,         \* TpSlManager.sl_order_id
  is_protected,        \* TpSlManager.is_protected
  filters_loaded,      \* OrderManager._symbol_filters holds the symbol
  in_cycle,            \* EntryExecutor._in_cycle
  is_trading_allowed,  \* KillSwitch.is_trading_allowed
  trade_limits,        \* TradeLimits: counters and stored buckets
  limits_cfg,          \* TradeLimits: the limits read from config at construction
  last_position_open,  \* main(): local
  last_pnl_check_ms,   \* main(): local, the PnL watermark
  now_ms,              \* main(): local, read once per cycle
  checkpoint_file,     \* the checkpoint file's watermark
  clock,               \* wall clock, in hour buckets
  exPosition,          \* the exchange's position for the symbol
  exOrders,            \* the exchange's live protective orders the manager holds ids of
  exOrphans,           \* the exchange's other live protective orders, per kind
  step_log,            \* the loop step taken last and how it ended
  sync_log,            \* the last TpSlManager.sync: what it saw and did
  tracker_log,         \* the last PositionTracker operation (tracker harness)
  risk_log,            \* the last TradeLimits / KillSwitch operation (risk harness)
  ledger,              \* the exchange's realized-PnL and funding entries, by time
  pnl_log,             \* the last close-attribution or start-up (PnL harness)
  calc_log,            \* the last call of a pure helper (calculation harness)
  tmp_file,            \* the text of the checkpoint's temporary file
  save_log             \* the save_checkpoint in progress (save harness)

managerVars == <<tp_order_id, sl_order_id, is_protected, filters_loaded, in_cycle>>
riskVars == <<is_trading_allowed, trade_limits, limits_cfg>>
loopVars == <<last_position_open, last_pnl_check_ms, now_ms, checkpoint_file>>
logVars == <<step_log, sync_log>>

bookVars == <<exOrders, exOrphans>>

\* What only the risk, the PnL and the calculation harness use.
sideVars == <<risk_log, ledger, pnl_log, calc_log, tmp_file, save_log>>

vars == <<pc, position, managerVars, riskVars, loopVars, clock, exPosition,
          bookVars, logVars, tracker_log, sideVars>>

\* Everything the tracker harness leaves alone.
loopOnlyVars == <<managerVars, riskVars, loopVars, clock, bookVars, logVars, sideVars>>

-----------------------------------------------------------------------------
\* Values

\* Python's None for Optional[Position].
NoPos == [none |-> TRUE]

Sides == {"LONG", "SHORT"}

\* tracker.py:75-76, 1e-8 in units of 1e-8
Tolerance == 1

Abs(x) == IF x < 0 THEN -x ELSE x

\* The grid the model's quantities and prices are taken from.
BaseQty == 10
BasePrice == 5
Spread == 2
MaxEntryTime == 1

\* position/position.py: the dataclass (symbol is the single configured symbol)
Position(side, quantity, entry_price, entry_time) ==
  [side |-> side, quantity |-> quantity, entry_price |-> entry_price,
   entry_time |-> entry_time]

\* Outcomes of one signed GET after the retry wrapper: a response, a
\* BinanceAPIError, or a requests.RequestException once the retries are used up.
GetOutcomes == {"ok", "api_error", "transport"}

-----------------------------------------------------------------------------
\* PositionTracker

\* has_open_position
has_open_position(pos) == pos # NoPos /\ pos.quantity > 0

\* The three-way reconciliation at the end of sync_from_exchange.
Reconcile_ClearsOnGap(local, remote) ==
  IF remote # NoPos /\ local = NoPos THEN remote
  ELSE IF remote # NoPos /\ local # NoPos
       THEN IF \/ local.side # remote.side
               \/ Abs(local.quantity - remote.quantity) > Tolerance
               \/ Abs(local.entry_price - remote.entry_price) > Tolerance
            THEN remote
            ELSE local
       ELSE NoPos

Reconcile_AlwaysOverwrite(local, remote) ==
  IF remote # NoPos THEN remote ELSE local

Reconcile(local, remote) ==
  IF remote # NoPos /\ local = NoPos THEN remote
  ELSE IF remote # NoPos /\ local # NoPos
       THEN IF \/ local.side # remote.side
               \/ Abs(local.quantity - remote.quantity) > Tolerance
               \/ Abs(local.entry_price - remote.entry_price) > Tolerance
            THEN remote
            ELSE local
       ELSE local

\* sync_from_exchange: the local position after the call, given how the account
\* query ended. A BinanceAPIError is caught and the method returns; a transport
\* exception leaves through the method with the position as it was.
sync_from_exchange(local, outcome, remote) ==
  IF outcome = "ok" THEN Reconcile(local, remote) ELSE local

\* What the caller of sync_from_exchange sees: "returned" or the exception that
\* leaves the method. The except clause swallows BinanceAPIError.
sync_raises(outcome) ==
  IF outcome = "transport" THEN "RequestException" ELSE "none"

-----------------------------------------------------------------------------
\* Transport: the retry wrapper around every REST call

\* binance_client.py: @retry(max_retries=3, ...)
MAX_RETRIES == 3

\* How one HTTP attempt can end. A timeout is a requests.RequestException; the
\* request may or may not have reached the exchange before it.
AttemptResults == {"ok", "no_id", "api_error", "timeout_sent", "timeout_lost"}
TransportErrors == {"timeout_sent", "timeout_lost"}

\* binance_client.py: @retry(..., backoff_factor=0.5, ...), in seconds
BACKOFF_FACTOR == [num |-> 1, den |-> 2]

\* retry.wrapper: call again on a transport error until max_retries retries are
\* used up, then re-raise; anything else ends the loop at once. attempts[i] is
\* how the i-th call ends. The result counts the calls, the failed calls whose
\* request reached the exchange, lists the delays slept, and says how the
\* wrapper ends.
RECURSIVE retry_loop_RetriesAll(_, _, _, _, _, _)
retry_loop_RetriesAll(attempts, i, attempt, sent, delay, sleeps) ==
  LET r == attempts[i]
      sent2 == sent + (IF r = "timeout_sent" THEN 1 ELSE 0)
  IN IF r \notin TransportErrors \cup {"api_error"}
     THEN [calls |-> i, sent |-> sent, final |-> r, sleeps |-> sleeps]
     ELSE IF attempt + 1 > MAX_RETRIES
          THEN [calls |-> i, sent |-> sent2, sleeps |-> sleeps,
                final |-> IF r = "api_error" THEN r ELSE "transport"]
          ELSE retry_loop_RetriesAll(attempts, i + 1, attempt + 1, sent2,
                                     [delay EXCEPT !.num = @ * 2], Append(sleeps, delay))

RECURSIVE retry_loop(_, _, _, _, _, _)
retry_loop(attempts, i, attempt, sent, delay, sleeps) ==
  LET r == attempts[i]
      sent2 == sent + (IF r = "timeout_sent" THEN 1 ELSE 0)
  IN IF r \notin TransportErrors
     THEN [calls |-> i, sent |-> sent, final |-> r, sleeps |-> sleeps]
     ELSE IF attempt + 1 > MAX_RETRIES
          THEN [calls |-> i, sent |-> sent2, final |-> "transport", sleeps |-> sleeps]
          ELSE retry_loop(attempts, i + 1, attempt + 1, sent2,
                          [delay EXCEPT !.num = @ * 2], Append(sleeps, delay))

retry(attempts) == retry_loop(attempts, 1, 0, 0, BACKOFF_FACTOR, <<>>)

\* The duplicated submissions followed per call.
MaxDup == 1

\* _signed_post under the wrapper: every way a POST can end.
PostOutcomes ==
  { o \in { retry(a) : a \in [1..(MAX_RETRIES + 1) -> AttemptResults] } :
      o.sent <= MaxDup }

-----------------------------------------------------------------------------
\* The world a handler runs in: the program state it touches, the exchange, and
\* a record of what it did. exc is the exception that leaves the handler.

\* None for an order id; Python tests ids by truth value, so 0 counts as None.
NoId == 0

\* Order ids are opaque to the program. The order whose id the manager holds
\* as tp_order_id is named TpId, the one it holds as sl_order_id SlId. An
\* order whose id the manager does not hold (a duplicate it never heard of, or
\* one whose id it dropped) cannot be addressed any more: the exchange's book
\* counts those per kind, in orphans.
TpId == 1
SlId == 2
LegId(kind) == IF kind = "TP" THEN TpId ELSE SlId

\* The protective orders the exchange keeps live at once; it rejects more.
MaxLive == MaxDup + 2

NoOrphans == [TP |-> 0, SL |-> 0]

World ==
  [pos |-> position, tp |-> tp_order_id, sl |-> sl_order_id,
   prot |-> is_protected, filters |-> filters_loaded, in_cycle |-> in_cycle,
   exPos |-> exPosition, orders |-> exOrders, orphans |-> exOrphans,
   submits |-> 0, places |-> 0, cancels |-> 0, leg_failed |-> FALSE,
   committed |-> FALSE, held |-> FALSE, exc |-> "none",
   market_calls |-> 0, entry_end |-> "none", fills |-> <<>>, requests |-> {},
   queries |-> 0]

Raise(w, e) == [w EXCEPT !.exc = e]

LiveIds(w) == { o.id : o \in w.orders }
LiveCount(w) == Cardinality(w.orders) + w.orphans.TP + w.orphans.SL

\* The exchange books n more orders of a kind whose ids the program never sees.
BookOrphans(w, kind, n) == [w EXCEPT !.orphans[kind] = @ + n]

\* The program drops the ids it holds: what is still live of them is orphaned.
DropIds(w) ==
  [w EXCEPT !.tp = NoId, !.sl = NoId, !.orders = {},
            !.orphans = [k \in {"TP", "SL"} |->
                           @[k] + Cardinality({ o \in w.orders : o.kind = k })]]

-----------------------------------------------------------------------------
\* OrderManager

\* The LOT_SIZE step of the symbol, in grid units.
StepSize == 2

\* A float, as a fraction of grid units.
Rat(n, d) == [num |-> n, den |-> d]

\* The PRICE_FILTER tick of the symbol, in grid units.
TickSize == 1

\* Decimal's // truncates the quotient toward zero.
TruncDiv(a, b) == IF a >= 0 THEN a \div b ELSE -((-a) \div b)

\* float((Decimal(str(x)) // step) * step), x a fraction with a positive
\* denominator: the text of a float of this grid is its exact decimal value.
floor_to_step_Nearest(x, step) ==
  TruncDiv(2 * x.num + x.den * step, 2 * x.den * step) * step

floor_to_step(x, step) == TruncDiv(x.num, x.den * step) * step

\* _round_price
round_price(price) == floor_to_step(price, TickSize)

\* _round_qty
round_qty(qty) == floor_to_step(qty, StepSize)

\* _load_filters: cached after the first successful get_symbol_info.
load_filters(w) ==
  IF w.filters THEN {w}
  ELSE { IF g = "ok" THEN [w EXCEPT !.filters = TRUE]
         ELSE IF g = "api_error" THEN Raise(w, "BinanceAPIError")
         ELSE Raise(w, "RequestException") : g \in GetOutcomes }

\* The POST outcomes the exchange has ids left for.
Feasible(w) ==
  { o \in PostOutcomes :
      LiveCount(w) + o.sent + (IF o.final = "ok" THEN 1 ELSE 0) <= MaxLive }

\* place_take_profit / place_stop_loss: round, reject a zero quantity, POST.
\* Returns the worlds after the call with the order id of the response in
\* ret (NoId when the response carries none); requests collects what was
\* handed to the client.
place_leg(w, kind, side, quantity, stop_price) ==
  LET rounded == round_qty(Rat(quantity, 1))
      request == [kind |-> kind, side |-> side, quantity |-> rounded,
                  stopPrice |-> round_price(stop_price)]
  IN
  UNION { IF f.exc # "none" THEN {[w2 |-> f, ret |-> NoId]}
          ELSE IF rounded <= 0
          THEN {[w2 |-> Raise(f, "BinanceAPIError"), ret |-> NoId]}
          ELSE { LET b == BookOrphans([f EXCEPT !.places = @ + 1,
                                                !.requests = @ \cup {request}],
                                      kind, o.sent)
                 IN CASE o.final = "ok" ->
                           [w2 |-> [b EXCEPT !.orders = @ \cup {[id |-> LegId(kind), kind |-> kind]}],
                            ret |-> LegId(kind)]
                      [] o.final = "no_id" -> [w2 |-> b, ret |-> NoId]
                      [] o.final = "api_error" ->
                           [w2 |-> Raise(b, "BinanceAPIError"), ret |-> NoId]
                      [] OTHER -> [w2 |-> Raise(b, "RequestException"), ret |-> NoId]
                 : o \in Feasible(f) }
        : f \in load_filters(w) }

\* cancel_order: how a DELETE for an id can end. The exchange cancels a live
\* order or answers with an error and leaves it; an id it does not hold is an
\* error.
CancelOutcomes(w, id) ==
  IF id \in LiveIds(w) THEN {"ok", "api_error", "transport"}
  ELSE {"api_error", "transport"}

cancel_order(w, id, c) ==
  LET w1 == [w EXCEPT !.cancels = @ + 1,
                      !.orders = IF c = "ok" THEN { o \in @ : o.id # id } ELSE @]
  IN CASE c = "ok" -> w1
       [] c = "api_error" -> Raise(w1, "BinanceAPIError")
       [] OTHER -> Raise(w1, "RequestException")

-----------------------------------------------------------------------------
\* TpSlManager

\* One leg of _cancel_outstanding: BinanceAPIError is caught and logged, any
\* other exception leaves.
cancel_leg(w, id) ==
  IF id = NoId THEN {w}
  ELSE { LET r == cancel_order(w, id, c)
         IN IF r.exc = "BinanceAPIError" THEN Raise(r, "none") ELSE r
         : c \in CancelOutcomes(w, id) }

\* _cancel_outstanding
cancel_outstanding(w) ==
  LET afterTp == cancel_leg(w, w.tp)
      afterSl == UNION { IF a.exc # "none" THEN {a} ELSE cancel_leg(a, a.sl)
                         : a \in afterTp }
  IN { IF b.exc # "none" THEN b
       ELSE [DropIds(b) EXCEPT !.prot = FALSE] : b \in afterSl }

\* The except clause of _place_protection.
placement_failed(w) ==
  { IF c.exc # "none" THEN c ELSE [c EXCEPT !.prot = FALSE]
    : c \in cancel_outstanding([w EXCEPT !.leg_failed = TRUE, !.exc = "none"]) }

Caught(e) == e \in {"ValueError", "BinanceAPIError"}

\* A leg's response without an order id raises ValueError.
LegResult(r) ==
  IF r.w2.exc = "none" /\ r.ret = NoId THEN Raise(r.w2, "ValueError") ELSE r.w2

\* config/risk.py: 0.01
TP_PERCENT == Rat(1, 100)
SL_PERCENT == Rat(1, 100)

\* _compute_prices: entry_price in grid units, the prices as fractions.
compute_prices_NotMirrored(entry_price, side) ==
  [tp |-> Rat(entry_price * (TP_PERCENT.den + TP_PERCENT.num), TP_PERCENT.den),
   sl |-> Rat(entry_price * (SL_PERCENT.den - SL_PERCENT.num), SL_PERCENT.den)]

compute_prices(entry_price, side) ==
  IF side = "LONG"
  THEN [tp |-> Rat(entry_price * (TP_PERCENT.den + TP_PERCENT.num), TP_PERCENT.den),
        sl |-> Rat(entry_price * (SL_PERCENT.den - SL_PERCENT.num), SL_PERCENT.den)]
  ELSE [tp |-> Rat(entry_price * (TP_PERCENT.den - TP_PERCENT.num), TP_PERCENT.den),
        sl |-> Rat(entry_price * (SL_PERCENT.den + SL_PERCENT.num), SL_PERCENT.den)]

\* tp_sl.py:57
side_to_close(side) == IF side = "LONG" THEN "SELL" ELSE "BUY"

\* _place_protection
place_protection(w, pos) ==
  LET prices == compute_prices(pos.entry_price, pos.side) IN
  UNION { LET t == LegResult(tr)
          IN IF Caught(t.exc) THEN placement_failed(t)
             ELSE IF t.exc # "none" THEN {t}
             ELSE UNION { LET s == LegResult(sr)
                          IN IF Caught(s.exc) THEN placement_failed(s)
                             ELSE IF s.exc # "none" THEN {s}
                             ELSE {[s EXCEPT !.sl = sr.ret]}
                          : sr \in place_leg([t EXCEPT !.tp = tr.ret], "SL",
                                              side_to_close(pos.side), pos.quantity,
                                              prices.sl) }
        : tr \in place_leg(w, "TP", side_to_close(pos.side), pos.quantity, prices.tp) }

\* _fetch_remote_position: the world after it and the position it returns.
fetch_remote_position_FailsFlat(w) ==
  { CASE g = "transport" -> [w2 |-> Raise(w, "RequestException"), ret |-> NoPos, view |-> "failed"]
      [] g = "api_error" -> [w2 |-> w, ret |-> NoPos, view |-> "failed"]
      [] OTHER ->
           IF w.exPos # NoPos
           THEN [w2 |-> [w EXCEPT !.pos = w.exPos], ret |-> w.exPos, view |-> "present"]
           ELSE [w2 |-> [w EXCEPT !.prot = FALSE], ret |-> NoPos, view |-> "absent"]
    : g \in GetOutcomes }

fetch_remote_position(w) ==
  { CASE g = "transport" -> [w2 |-> Raise(w, "RequestException"), ret |-> NoPos, view |-> "failed"]
      [] g = "api_error" -> [w2 |-> w, ret |-> w.pos, view |-> "failed"]
      [] OTHER ->
           IF w.exPos # NoPos
           THEN [w2 |-> [w EXCEPT !.pos = w.exPos], ret |-> w.exPos, view |-> "present"]
           ELSE [w2 |-> [w EXCEPT !.prot = FALSE], ret |-> NoPos, view |-> "absent"]
    : g \in GetOutcomes }

\* TpSlManager.sync, exchange flat: cancel what is outstanding, clear the tracker.
sync_flat_NoCancel(w) == {[w EXCEPT !.pos = NoPos, !.prot = FALSE]}

sync_flat(w) ==
  { IF c.exc # "none" THEN c ELSE [c EXCEPT !.pos = NoPos, !.prot = FALSE]
    : c \in cancel_outstanding(w) }

\* TpSlManager.sync, position present and flag clear: cancel leftovers, place
\* both legs, set the flag.
sync_protect_NoFlag(w, pos) ==
  UNION { IF c.exc # "none" THEN {c} ELSE place_protection(c, pos)
        : c \in cancel_outstanding(w) }

sync_protect(w, pos) ==
  UNION { IF c.exc # "none" THEN {c}
          ELSE { IF p.exc # "none" THEN p ELSE [p EXCEPT !.prot = TRUE]
                 : p \in place_protection(c, pos) }
        : c \in cancel_outstanding(w) }

\* TpSlManager.sync after _fetch_remote_position returned pos.
sync_after_fetch_IgnoresFlag(w, pos) ==
  IF pos = NoPos THEN sync_flat(w)
  ELSE sync_protect(w, pos)

sync_after_fetch(w, pos) ==
  IF pos = NoPos THEN sync_flat(w)
  ELSE IF ~w.prot THEN sync_protect(w, pos)
  ELSE {w}

\* TpSlManager.sync: every world it can end in, with what it saw.
\* pos is the position _fetch_remote_position returned, decision the branch of
\* sync() taken on it.
tpsl_sync(w) ==
  UNION { IF f.w2.exc # "none"
          THEN {[w2 |-> f.w2, view |-> f.view, pos |-> f.ret, decision |-> "none"]}
          ELSE { [w2 |-> r, view |-> f.view, pos |-> f.ret,
                  decision |-> IF f.ret = NoPos THEN "flat"
                               ELSE IF ~f.w2.prot THEN "protect" ELSE "keep"]
                 : r \in sync_after_fetch(f.w2, f.ret) }
        : f \in fetch_remote_position(w) }

-----------------------------------------------------------------------------
\* PositionSizer

\* config/risk.py: 0.001
RISK_PERCENT == Rat(1, 1000)

\* None of Optional[float].
NoSize == [nosize |-> TRUE]

\* Python's float division raises on a zero divisor.
ZeroDivision == [raised |-> "ZeroDivisionError"]

\* qty > 0 for a fraction.
Positive(q) == (q.num > 0 /\ q.den > 0) \/ (q.num < 0 /\ q.den < 0)

\* compute_position_size: equity and entry_price are whole grid units. The
\* float arithmetic is exact here: the inputs followed stay in the range where
\* no product underflows to zero or overflows.
compute_position_size_NoGuard(equity, risk_percent, entry_price, sl_percent) ==
  LET qty == Rat(equity * risk_percent.num * sl_percent.den,
                 entry_price * sl_percent.num * risk_percent.den)
  IN IF qty.den = 0 THEN ZeroDivision
     ELSE IF Positive(qty) THEN qty ELSE NoSize

compute_position_size_DropsSl(equity, risk_percent, entry_price, sl_percent) ==
  IF equity <= 0 \/ ~Positive(risk_percent) \/ entry_price <= 0
     \/ ~Positive(sl_percent)
  THEN NoSize
  ELSE LET qty == Rat(equity * risk_percent.num, entry_price * risk_percent.den)
       IN IF Positive(qty) THEN qty ELSE NoSize

compute_position_size(equity, risk_percent, entry_price, sl_percent) ==
  IF equity <= 0 \/ ~Positive(risk_percent) \/ entry_price <= 0
     \/ ~Positive(sl_percent)
  THEN NoSize
  ELSE LET qty == Rat(equity * risk_percent.num * sl_percent.den,
                      entry_price * sl_percent.num * risk_percent.den)
       IN IF qty.den = 0 THEN ZeroDivision
          ELSE IF Positive(qty) THEN qty ELSE NoSize

-----------------------------------------------------------------------------
\* The exchange's side of a market order

\* The side of the position a market order opens: the exchange reports a
\* bought amount as a positive positionAmt, which the tracker reads as LONG.
OpenedSide(side) == IF side = "BUY" THEN "LONG" ELSE "SHORT"

\* The position the exchange may hold, in lots of the entry quantity.
MaxLots == MaxDup + 1

\* The exchange nets a market order of quantity q at price p into its position.
ApplyMarket(ex, dir, q, p) ==
  IF ex = NoPos THEN Position(dir, q, p, 0)
  ELSE IF ex.side = dir
       THEN Position(dir, ex.quantity + q,
                     (ex.quantity * ex.entry_price + q * p) \div (ex.quantity + q), 0)
       ELSE IF ex.quantity = q THEN NoPos
       ELSE IF ex.quantity > q THEN Position(ex.side, ex.quantity - q, ex.entry_price, 0)
       ELSE Position(dir, q - ex.quantity, p, 0)

RECURSIVE ApplyMarketTimes(_, _, _, _, _)
ApplyMarketTimes(ex, dir, q, p, n) ==
  IF n = 0 THEN ex ELSE ApplyMarketTimes(ApplyMarket(ex, dir, q, p), dir, q, p, n - 1)

\* The fills the exchange reports for an executed order of quantity q at price
\* p: none yet, one, two, or one of zero quantity.
FillReports(q, p) ==
  { <<>>,
    <<[qty |-> q, price |-> p]>>,
    <<[qty |-> q - StepSize, price |-> p], [qty |-> StepSize, price |-> p]>>,
    <<[qty |-> 0, price |-> p]>> }

-----------------------------------------------------------------------------
\* OrderManager: market orders and fills

Executed(o) == o.sent + (IF o.final = "ok" THEN 1 ELSE 0)
Reached(o) == o.sent + (IF o.final = "transport" THEN 0 ELSE 1)

\* OrderManager.place_market_order: the worlds after it; ret is the orderId of
\* the response (NoId when it carries none), qty the rounded quantity. The
\* first definition rejects only a negative quantity.
place_market_order_ChecksNegative(w, side, quantity, price) ==
  LET rounded == round_qty(quantity)
      dir == OpenedSide(side)
      Fits(o) == rounded = 0 \/
                 LET ex == ApplyMarketTimes(w.exPos, dir, rounded, price, Executed(o))
                 IN ex = NoPos \/ ex.quantity <= MaxLots * rounded
  IN UNION { IF f.exc # "none" THEN {[w2 |-> f, ret |-> NoId, qty |-> rounded]}
             ELSE IF rounded < 0
             THEN {[w2 |-> Raise(f, "BinanceAPIError"), ret |-> NoId, qty |-> rounded]}
             ELSE { LET b == [f EXCEPT !.submits = @ + Reached(o),
                                       !.exPos = IF rounded = 0 THEN @
                                                 ELSE ApplyMarketTimes(@, dir, rounded, price,
                                                                       Executed(o))]
                    IN CASE o.final = "ok" -> [w2 |-> b, ret |-> 1, qty |-> rounded]
                         [] o.final = "no_id" -> [w2 |-> b, ret |-> NoId, qty |-> rounded]
                         [] o.final = "api_error" ->
                              [w2 |-> Raise(b, "BinanceAPIError"), ret |-> NoId, qty |-> rounded]
                         [] OTHER ->
                              [w2 |-> Raise(b, "RequestException"), ret |-> NoId, qty |-> rounded]
                    : o \in { x \in PostOutcomes : Fits(x) } }
           : f \in load_filters(w) }

place_market_order(w, side, quantity, price) ==
  LET rounded == round_qty(quantity)
      dir == OpenedSide(side)
      Fits(o) == LET ex == ApplyMarketTimes(w.exPos, dir, rounded, price, Executed(o))
                 IN ex = NoPos \/ ex.quantity <= MaxLots * rounded
  IN UNION { IF f.exc # "none" THEN {[w2 |-> f, ret |-> NoId, qty |-> rounded]}
             ELSE IF rounded <= 0
             THEN {[w2 |-> Raise(f, "BinanceAPIError"), ret |-> NoId, qty |-> rounded]}
             ELSE { LET b == [f EXCEPT !.submits = @ + Reached(o),
                                       !.exPos = ApplyMarketTimes(@, dir, rounded, price,
                                                                  Executed(o))]
                    IN CASE o.final = "ok" -> [w2 |-> b, ret |-> 1, qty |-> rounded]
                         [] o.final = "no_id" -> [w2 |-> b, ret |-> NoId, qty |-> rounded]
                         [] o.final = "api_error" ->
                              [w2 |-> Raise(b, "BinanceAPIError"), ret |-> NoId, qty |-> rounded]
                         [] OTHER ->
                              [w2 |-> Raise(b, "RequestException"), ret |-> NoId, qty |-> rounded]
                    : o \in { x \in PostOutcomes : Fits(x) } }
           : f \in load_filters(w) }

RECURSIVE SumQty(_)
SumQty(trades) ==
  IF trades = <<>> THEN 0 ELSE Head(trades).qty + SumQty(Tail(trades))

RECURSIVE SumQuote(_)
SumQuote(trades) ==
  IF trades = <<>> THEN 0
  ELSE Head(trades).qty * Head(trades).price + SumQuote(Tail(trades))

NoFill == [nofill |-> TRUE]

RECURSIVE SumPrice(_)
SumPrice(trades) ==
  IF trades = <<>> THEN 0 ELSE Head(trades).price + SumPrice(Tail(trades))

\* compute_avg_fill: the price is total_quote / total_qty, a fraction.
compute_avg_fill_PlainMean(trades) ==
  IF trades = <<>> THEN NoFill
  ELSE IF SumQty(trades) = 0 THEN NoFill
  ELSE [price |-> Rat(SumPrice(trades), Len(trades)), qty |-> SumQty(trades)]

compute_avg_fill(trades) ==
  IF trades = <<>> THEN NoFill
  ELSE IF SumQty(trades) = 0 THEN NoFill
  ELSE [price |-> Rat(SumQuote(trades), SumQty(trades)), qty |-> SumQty(trades)]

\* A price as the Position holds it, in grid units; the averages of the fills
\* the exchange reports for an entry are whole grid units.
grid_price(p) == p.num \div p.den

-----------------------------------------------------------------------------
\* EntryExecutor

Signals == {"NONE", "LONG", "SHORT"}

\* The account's available balance, in grid units: zero, too little for one
\* step, enough for BaseQty.
Equities == {0, BasePrice * 10, BasePrice * BaseQty * 10}

\* entry.py:82
order_side(signal) == IF signal = "LONG" THEN "BUY" ELSE "SELL"

\* EntryExecutor.process from the equity check on: signal is LONG or SHORT,
\* entry_price the last 1m close, equity the balance the exchange answered.
\* entry_end says where it returned, fills what the fill query answered,
\* market_calls how often it called OrderManager.place_market_order.
enter_sized_Fabricates(w, signal, entry_price, equity) ==
  IF equity <= 0 THEN {[w EXCEPT !.entry_end = "no_equity"]}
  ELSE LET qty == compute_position_size(equity, RISK_PERCENT, entry_price, SL_PERCENT)
       IN IF qty = ZeroDivision THEN {Raise(w, "ZeroDivisionError")}
          ELSE IF qty = NoSize THEN {[w EXCEPT !.entry_end = "no_size"]}
          ELSE IF ~Positive(qty) THEN {[w EXCEPT !.entry_end = "no_size"]}
          ELSE UNION {
            LET placed == [m.w2 EXCEPT !.market_calls = @ + 1] IN
            IF placed.exc # "none" THEN {placed}
            ELSE IF m.ret = NoId THEN {[placed EXCEPT !.entry_end = "no_order_id"]}
            ELSE UNION {
              IF t = "api_error" THEN {Raise(placed, "BinanceAPIError")}
              ELSE IF t = "transport" THEN {Raise(placed, "RequestException")}
              ELSE { LET fill_info == compute_avg_fill(trades)
                     IN IF fill_info = NoFill
                        THEN [placed EXCEPT !.pos = Position(signal, m.qty, entry_price, 0),
                                            !.committed = TRUE, !.fills = trades,
                                            !.entry_end = "no_fills"]
                        ELSE [placed EXCEPT !.pos = Position(signal, fill_info.qty,
                                                             grid_price(fill_info.price), 0),
                                            !.committed = TRUE, !.fills = trades,
                                            !.entry_end = "filled"]
                     : trades \in FillReports(m.qty, entry_price) }
              : t \in GetOutcomes }
            : m \in place_market_order(w, order_side(signal), qty, entry_price) }

enter_sized(w, signal, entry_price, equity) ==
  IF equity <= 0 THEN {[w EXCEPT !.entry_end = "no_equity"]}
  ELSE LET qty == compute_position_size(equity, RISK_PERCENT, entry_price, SL_PERCENT)
       IN IF qty = ZeroDivision THEN {Raise(w, "ZeroDivisionError")}
          ELSE IF qty = NoSize THEN {[w EXCEPT !.entry_end = "no_size"]}
          ELSE IF ~Positive(qty) THEN {[w EXCEPT !.entry_end = "no_size"]}
          ELSE UNION {
            LET placed == [m.w2 EXCEPT !.market_calls = @ + 1] IN
            IF placed.exc # "none" THEN {placed}
            ELSE IF m.ret = NoId THEN {[placed EXCEPT !.entry_end = "no_order_id"]}
            ELSE UNION {
              IF t = "api_error" THEN {Raise(placed, "BinanceAPIError")}
              ELSE IF t = "transport" THEN {Raise(placed, "RequestException")}
              ELSE { LET fill_info == compute_avg_fill(trades)
                     IN IF fill_info = NoFill
                        THEN [placed EXCEPT !.fills = trades, !.entry_end = "no_fills"]
                        ELSE [placed EXCEPT !.pos = Position(signal, fill_info.qty,
                                                             grid_price(fill_info.price), 0),
                                            !.committed = TRUE, !.fills = trades,
                                            !.entry_end = "filled"]
                     : trades \in FillReports(m.qty, entry_price) }
              : t \in GetOutcomes }
            : m \in place_market_order(w, order_side(signal), qty, entry_price) }

\* EntryExecutor.process from the balance query on.
enter(w, signal, entry_price) ==
  LET asked == [w EXCEPT !.queries = @ + 1] IN
  UNION {
    IF g = "api_error" THEN {Raise(asked, "BinanceAPIError")}
    ELSE IF g = "transport" THEN {Raise(asked, "RequestException")}
    ELSE UNION { enter_sized(asked, signal, entry_price, equity) : equity \in Equities }
    : g \in GetOutcomes }

\* The reconciliation step of EntryExecutor.process: held says whether the
\* tracker has an open position after it.
reconciled(w, g) ==
  LET pos == sync_from_exchange(w.pos, g, w.exPos)
  IN [w EXCEPT !.pos = pos, !.held = has_open_position(pos), !.queries = @ + 1]

\* finally: self._in_cycle = False, on a return and on an exception alike.
finally_clear_OnReturnOnly(w) ==
  IF w.exc = "none" THEN [w EXCEPT !.in_cycle = FALSE] ELSE w

finally_clear(w) == [w EXCEPT !.in_cycle = FALSE]

\* EntryExecutor.process: closes is the number of closed 1m candles handed in;
\* the strategy gives no signal on fewer than two. A call made while the
\* flag is set returns at once.
process_NoOpenCheck(w, closes) ==
  IF w.in_cycle THEN {w}
  ELSE LET w0 == [w EXCEPT !.in_cycle = TRUE] IN
  { finally_clear(x) : x \in UNION {
    IF g = "transport" THEN {Raise([w0 EXCEPT !.queries = @ + 1], "RequestException")}
    ELSE LET w1 == reconciled(w0, g)
         IN UNION { IF signal = "NONE" THEN {w1} ELSE enter(w1, signal, BasePrice)
                    : signal \in IF closes < 2 THEN {"NONE"} ELSE Signals }
    : g \in GetOutcomes } }

process(w, closes) ==
  IF w.in_cycle THEN {w}
  ELSE LET w0 == [w EXCEPT !.in_cycle = TRUE] IN
  { finally_clear(x) : x \in UNION {
    IF g = "transport" THEN {Raise([w0 EXCEPT !.queries = @ + 1], "RequestException")}
    ELSE LET w1 == reconciled(w0, g)
         IN IF w1.held THEN {w1}
            ELSE UNION { IF signal = "NONE" THEN {w1} ELSE enter(w1, signal, BasePrice)
                         : signal \in IF closes < 2 THEN {"NONE"} ELSE Signals }
    : g \in GetOutcomes } }

-----------------------------------------------------------------------------
\* MarketDataService

\* A klines response: up to MaxKlines entries; an entry is its open time in
\* units of the interval and whether it is a list of at least 7 fields.
MaxKlines == 2
KlineEntries == [open_time : 0..MaxKlines, wellformed : BOOLEAN]
KlineResponses == UNION { [1..n -> KlineEntries] : n \in 0..MaxKlines }

\* _validate_sequence
validate_sequence(open_times) ==
  \A i \in 2..Len(open_times) : open_times[i] = open_times[i - 1] + 1

\* _normalize_klines: "ValueError", or the number of closed candles it returns;
\* last_closed says whether the last candle closed before the safety margin.
normalize_klines(klines, last_closed) ==
  IF klines = <<>> THEN [err |-> "ValueError", closes |-> 0]
  ELSE IF \E i \in 1..Len(klines) : ~klines[i].wellformed
  THEN [err |-> "ValueError", closes |-> 0]
  ELSE IF ~validate_sequence([i \in 1..Len(klines) |-> klines[i].open_time])
  THEN [err |-> "ValueError", closes |-> 0]
  ELSE [err |-> "none", closes |-> IF last_closed THEN Len(klines) ELSE Len(klines) - 1]

\* fetch_closed_klines: get_klines, then _normalize_klines.
fetch_closed_klines(g, klines, last_closed) ==
  IF g = "api_error" THEN [err |-> "BinanceAPIError", closes |-> 0]
  ELSE IF g = "transport" THEN [err |-> "RequestException", closes |-> 0]
  ELSE normalize_klines(klines, last_closed)

-----------------------------------------------------------------------------
\* TradeLimits and KillSwitch

\* Hours in a UTC day, in the model's clock.
HoursPerDay == 2

day_of(t) == t \div HoursPerDay

\* Days in a year, in the model's clock.
DaysPerYear == 2

\* The fields of the UTC datetime of hour t: the year counted from the
\* clock's first, the day of the year from 1, the hour of the day.
year_of(t) == day_of(t) \div DaysPerYear
tm_yday(t) == (day_of(t) % DaysPerYear) + 1
hour_of(t) == t % HoursPerDay

\* _hour_key: year * 10_000 + tm_yday * 24 + hour
hour_key_HourOfDay(t) == hour_of(t)

hour_key(t) == year_of(t) * 10000 + tm_yday(t) * 24 + hour_of(t)

\* An unset limit (None in config/risk.py).
NoLimit == -1

DefaultLimits ==
  [max_daily_loss |-> NoLimit, max_trades_per_day |-> NoLimit,
   max_trades_per_hour |-> NoLimit]

\* What config/risk.py may set instead: one limit each, low enough to be met
\* by the first closed trade.
LimitConfigs ==
  { DefaultLimits,
    [DefaultLimits EXCEPT !.max_daily_loss = 1],
    [DefaultLimits EXCEPT !.max_trades_per_day = 0],
    [DefaultLimits EXCEPT !.max_trades_per_hour = 0] }

\* TradeLimits.__init__: utcnow() is read once for the day, at t, and once
\* more for the hour key, at t2.
NewTradeLimitsAt(t, t2) ==
  [daily_trades |-> 0, hourly_trades |-> 0, daily_loss |-> 0,
   current_day |-> day_of(t), current_hour_key |-> hour_key(t2)]

\* TradeLimits.__init__ with both reads in the hour t
NewTradeLimits(t) == NewTradeLimitsAt(t, t)

\* reset_if_needed
reset_if_needed_KeepsLoss(l, now) ==
  LET l1 == IF day_of(now) # l.current_day
            THEN [l EXCEPT !.daily_trades = 0, !.current_day = day_of(now)]
            ELSE l
  IN IF hour_key(now) # l1.current_hour_key
     THEN [l1 EXCEPT !.hourly_trades = 0, !.current_hour_key = hour_key(now)]
     ELSE l1

reset_if_needed(l, now) ==
  LET l1 == IF day_of(now) # l.current_day
            THEN [l EXCEPT !.daily_trades = 0, !.daily_loss = 0,
                           !.current_day = day_of(now)]
            ELSE l
  IN IF hour_key(now) # l1.current_hour_key
     THEN [l1 EXCEPT !.hourly_trades = 0, !.current_hour_key = hour_key(now)]
     ELSE l1

\* record_trade
record_trade_AddsAlways(l, pnl, now) ==
  LET l1 == reset_if_needed(l, now)
  IN [l1 EXCEPT !.daily_trades = @ + 1, !.hourly_trades = @ + 1,
                !.daily_loss = @ + pnl]

record_trade(l, pnl, now) ==
  LET l1 == reset_if_needed(l, now)
  IN [l1 EXCEPT !.daily_trades = @ + 1, !.hourly_trades = @ + 1,
                !.daily_loss = IF pnl < 0 THEN @ + pnl ELSE @]

\* limits_exceeded
limits_exceeded_ChecksUnset(l, cfg) ==
  \/ l.daily_loss <= -Abs(cfg.max_daily_loss)
  \/ l.daily_trades > cfg.max_trades_per_day
  \/ l.hourly_trades > cfg.max_trades_per_hour

limits_exceeded(l, cfg) ==
  \/ cfg.max_daily_loss # NoLimit /\ l.daily_loss <= -Abs(cfg.max_daily_loss)
  \/ cfg.max_trades_per_day # NoLimit /\ l.daily_trades > cfg.max_trades_per_day
  \/ cfg.max_trades_per_hour # NoLimit /\ l.hourly_trades > cfg.max_trades_per_hour

\* KillSwitch.evaluate
evaluate_Tracks(allowed, l, cfg) == ~limits_exceeded(l, cfg)

evaluate_Never(allowed, l, cfg) == allowed

evaluate(allowed, l, cfg) == IF limits_exceeded(l, cfg) THEN FALSE ELSE allowed

\* KillSwitch.reset_daily
reset_daily(allowed) == TRUE

-----------------------------------------------------------------------------
\* main(): the control loop, one action per step of a cycle

MaxClock == 1
MaxTrades == 1

\* Closed trades followed per day under limits cfg: enough to pass a
\* configured trade limit, and to go one beyond a daily one.
TradeCap(cfg) ==
  IF cfg.max_trades_per_day # NoLimit THEN MaxTrades + cfg.max_trades_per_day + 1
  ELSE IF cfg.max_trades_per_hour # NoLimit THEN MaxTrades + cfg.max_trades_per_hour
  ELSE MaxTrades

\* Net PnL of a closed trade: realized plus funding.
PnlValues == {-1, 0, 1}

\* infra/checkpoint.py. The checkpoint file is its text, one token per element:
\* "{" for the opening of the object up to the key's colon, the characters of
\* the decimal numeral json.dump writes for the watermark, "}" for the close.
DigitChars == <<"0", "1", "2", "3", "4", "5", "6", "7", "8", "9">>

\* No checkpoint file, or one without text.
NoCheckpoint == <<>>

RECURSIVE Digits(_)
Digits(n) ==
  IF n < 10 THEN <<DigitChars[n + 1]>>
  ELSE Append(Digits(n \div 10), DigitChars[(n % 10) + 1])

\* json.dump of an int
json_dump(w) == IF w < 0 THEN <<"-">> \o Digits(-w) ELSE Digits(w)

DigitValue(c) == CHOOSE d \in 0..9 : DigitChars[d + 1] = c

RECURSIVE Numeral(_)
Numeral(text) ==
  IF Len(text) = 1 THEN DigitValue(text[1])
  ELSE 10 * Numeral(SubSeq(text, 1, Len(text) - 1)) + DigitValue(text[Len(text)])

\* json.load of a numeral
json_load(text) ==
  IF Head(text) = "-" THEN -Numeral(Tail(text)) ELSE Numeral(text)

\* The text of a JSON numeral: an optional sign, then digits.
IsNumeral(text) ==
  LET body == IF text # <<>> /\ Head(text) = "-" THEN Tail(text) ELSE text
  IN /\ body # <<>>
     /\ \A i \in 1..Len(body) : \E d \in 1..10 : DigitChars[d] = body[i]

\* json.load accepts the text: a whole object, from "{" to "}".
IsDocument(text) ==
  /\ Len(text) >= 3
  /\ Head(text) = "{"
  /\ text[Len(text)] = "}"
  /\ IsNumeral(SubSeq(text, 2, Len(text) - 1))

\* save_checkpoint({"last_pnl_check_ms": w}): the file after it.
save_checkpoint(w) == <<"{">> \o json_dump(w) \o <<"}">>

\* load_checkpoint: the dict read; {} when there is no file or json.load
\* raises on its text.
load_checkpoint(file) ==
  IF ~IsDocument(file) THEN [has |-> FALSE, last_pnl_check_ms |-> 0]
  ELSE [has |-> TRUE, last_pnl_check_ms |-> json_load(SubSeq(file, 2, Len(file) - 1))]

\* main(): int(checkpoint.get("last_pnl_check_ms", time.time() * 1000))
start_watermark_IgnoresFile(file, now) == now

start_watermark(file, now) ==
  LET checkpoint == load_checkpoint(file)
  IN IF checkpoint.has THEN checkpoint.last_pnl_check_ms ELSE now

\* The risk harness's log before any operation.
NoRiskLog ==
  [op |-> "none", pre |-> NewTradeLimits(0), pre_allowed |-> TRUE, now |-> 0,
   pnl |-> 0, exceeded |-> FALSE, tripped |-> FALSE]

\* The PnL harness's log before any operation. start is the start time of the
\* last close-attribution, summed the entries it summed, prev_summed those of
\* the one before; saved is the watermark of the last save_checkpoint, if
\* has_saved; loaded is what the last start-up found saved, if had_saved;
\* after_start says no attribution came between that start-up and this one.
NoPnlLog ==
  [op |-> "none", start |-> 0, summed |-> {}, prev_summed |-> {},
   has_saved |-> FALSE, saved |-> 0, had_saved |-> FALSE, loaded |-> 0,
   after_start |-> FALSE]

\* The calculation harness's log before any call.
NoCalcLog == [op |-> "none"]

\* The save harness's log before any save: the file's text when the last save
\* began, the text that save writes, where the process stopped if it did, and
\* what the load after it read.
NoSaveLog ==
  [op |-> "none", old |-> NoCheckpoint, new |-> NoCheckpoint, stopped_at |-> "none",
   loaded |-> [has |-> FALSE, last_pnl_check_ms |-> 0]]

\* The tracker harness's log before any operation.
NoLog == [op |-> "none", pre |-> NoPos, remote |-> NoPos, outcome |-> "none"]

\* step_log: the loop step taken last and how it ended. outcome is "ok" or
\* the failure met; closes is what the candle step hands to the entry step;
\* submits counts the market-order requests that reached the exchange in the
\* step; committed says the step set a new position; held says the tracker
\* had an open position after the entry step's reconciliation.
StepLog(step, outcome) ==
  [step |-> step, outcome |-> outcome, closes |-> 0, submits |-> 0,
   committed |-> FALSE, held |-> FALSE]

\* sync_log: the last TpSlManager.sync of the cycle. entry is how the cycle's
\* entry step ended, "committed" when it set a new position; decided is the position
\* sync() decided on; covered, kept over the cycles, is the position the manager
\* set is_protected for (NoPos while the flag is clear).
NoSyncLog ==
  [pre_prot |-> FALSE, pre_tp |-> NoId, pre_sl |-> NoId, view |-> "none",
   places |-> 0, cancels |-> 0, leg_failed |-> FALSE, exc |-> "none",
   entry |-> "none", decision |-> "none", decided |-> NoPos, covered |-> NoPos]

\* The state main() builds before its loop, with the limits config/risk.py sets.
Init ==
  /\ pc = "sync"
  /\ clock = 0
  /\ position = NoPos
  /\ tp_order_id = NoId
  /\ sl_order_id = NoId
  /\ is_protected = FALSE
  /\ filters_loaded = FALSE
  /\ in_cycle = FALSE
  /\ is_trading_allowed = TRUE
  /\ trade_limits = NewTradeLimits(0)
  /\ limits_cfg = DefaultLimits
  /\ last_position_open = FALSE
  /\ checkpoint_file = NoCheckpoint
  /\ last_pnl_check_ms = 0
  /\ now_ms = 0
  /\ exPosition = NoPos
  /\ exOrders = {}
  /\ exOrphans = NoOrphans
  /\ step_log = StepLog("start", "ok")
  /\ sync_log = NoSyncLog
  /\ tracker_log = NoLog
  /\ risk_log = NoRiskLog
  /\ ledger = {}
  /\ calc_log = NoCalcLog
  /\ tmp_file = NoCheckpoint
  /\ save_log = NoSaveLog
  /\ pnl_log = NoPnlLog

\* The program state and the exchange after a handler ended in world w.
Commit(w) ==
  /\ position' = w.pos
  /\ tp_order_id' = w.tp
  /\ sl_order_id' = w.sl
  /\ is_protected' = w.prot
  /\ filters_loaded' = w.filters
  /\ in_cycle' = w.in_cycle
  /\ exPosition' = w.exPos
  /\ exOrders' = w.orders
  /\ exOrphans' = w.orphans

\* Where the loop goes after a step that ended with outcome e: on, or out of
\* the process. main() catches only KeyboardInterrupt around the loop.
After(e, on) == IF e = "none" THEN on ELSE "crashed"

\* position_tracker.sync_from_exchange() under try/except BinanceAPIError.
MainSync ==
  /\ pc = "sync"
  /\ \E g \in GetOutcomes :
       /\ position' = sync_from_exchange(position, g, exPosition)
       /\ step_log' = StepLog("sync", g)
       /\ pc' = IF sync_raises(g) = "BinanceAPIError" THEN "sleep"
                ELSE After(sync_raises(g), "limits")
  /\ UNCHANGED <<managerVars, riskVars, loopVars, clock, exPosition, bookVars,
                 sync_log, tracker_log, sideVars>>

\* main.py:67, the test before kill_switch.reset_daily()
reset_due_WhenOff(exceeded, allowed) == ~allowed

reset_due(exceeded, allowed) == ~exceeded /\ ~allowed

\* now_ms, reset_if_needed, and the kill-switch reset.
MainLimits ==
  /\ pc = "limits"
  /\ now_ms' = clock
  /\ LET l == reset_if_needed(trade_limits, clock)
     IN /\ trade_limits' = l
        /\ is_trading_allowed' =
             IF reset_due(limits_exceeded(l, limits_cfg), is_trading_allowed)
             THEN reset_daily(is_trading_allowed)
             ELSE is_trading_allowed
  /\ pc' = "candles"
  /\ step_log' = StepLog("limits", "ok")
  /\ UNCHANGED <<position, managerVars, limits_cfg, last_position_open,
                 last_pnl_check_ms, checkpoint_file, clock, exPosition, bookVars,
                 sync_log, tracker_log, sideVars>>

\* Every result one fetch_closed_klines call can have.
FetchResults ==
  { fetch_closed_klines(g, k, closed) :
      g \in GetOutcomes, k \in KlineResponses, closed \in BOOLEAN }

\* The two candle fetches and the not-ready test; a fetch never returns None,
\* so the test never skips.
MainCandles ==
  /\ pc = "candles"
  /\ \E r1 \in FetchResults :
       IF r1.err # "none"
       THEN /\ pc' = After(r1.err, "entry")
            /\ step_log' = StepLog("candles", r1.err)
       ELSE \E r5 \in FetchResults :
              /\ pc' = After(r5.err, "entry")
              /\ step_log' = [StepLog("candles", IF r5.err = "none" THEN "ok" ELSE r5.err)
                                EXCEPT !.closes = IF r5.err = "none" THEN r1.closes ELSE 0]
  /\ UNCHANGED <<position, managerVars, riskVars, loopVars, clock, exPosition,
                 bookVars, sync_log, tracker_log, sideVars>>

\* The entry gate: kill_switch.is_trading_allowed.
entry_gate_Open(allowed) == TRUE

entry_gate(allowed) == allowed

\* executor.process(data) behind the kill switch.
MainEntry ==
  /\ pc = "entry"
  /\ IF entry_gate(is_trading_allowed)
     THEN \E w \in process(World, step_log.closes) :
            /\ Commit(w)
            /\ step_log' = [StepLog("entry", IF w.exc = "none" THEN "ok" ELSE w.exc)
                              EXCEPT !.submits = w.submits, !.committed = w.committed,
                                     !.held = w.held]
            /\ pc' = After(w.exc, "protect")
     ELSE /\ pc' = "protect"
          /\ step_log' = StepLog("entry", "skipped")
          /\ UNCHANGED <<position, managerVars, exPosition, bookVars>>
  /\ UNCHANGED <<riskVars, loopVars, clock, sync_log, tracker_log, sideVars>>

\* tp_sl_manager.sync()
MainProtect ==
  /\ pc = "protect"
  /\ \E r \in tpsl_sync(World) :
       LET w == r.w2
       IN /\ Commit(w)
          /\ sync_log' = [pre_prot |-> is_protected, pre_tp |-> tp_order_id,
                          pre_sl |-> sl_order_id, view |-> r.view,
                          places |-> w.places, cancels |-> w.cancels,
                          leg_failed |-> w.leg_failed, exc |-> w.exc,
                          entry |-> IF step_log.committed THEN "committed"
                                    ELSE step_log.outcome,
                          decision |-> r.decision, decided |-> r.pos,
                          covered |-> IF ~w.prot THEN NoPos
                                      ELSE IF r.decision = "protect" THEN r.pos
                                      ELSE sync_log.covered]
          /\ step_log' = StepLog("protect", IF w.exc = "none" THEN "ok" ELSE w.exc)
          /\ pc' = After(w.exc, "pnl")
  /\ UNCHANGED <<riskVars, loopVars, clock, tracker_log, sideVars>>

\* The close transition: the previous cycle ended with a position, this one
\* without.
close_transition_AnyFlat(last_open, currently_open) == ~currently_open

close_transition(last_open, currently_open) == last_open /\ ~currently_open

\* Close detection and PnL attribution.
MainPnl ==
  /\ pc = "pnl"
  /\ LET currently_open == has_open_position(position)
     IN IF close_transition(last_position_open, currently_open)
        THEN /\ trade_limits.daily_trades < TradeCap(limits_cfg)
             /\ \E realized \in GetOutcomes, funding \in GetOutcomes, net_pnl \in PnlValues :
                  IF realized # "ok" \/ funding # "ok"
                  THEN /\ pc' = "crashed"
                       /\ step_log' = StepLog("pnl", IF realized # "ok" THEN realized
                                                     ELSE funding)
                       /\ UNCHANGED <<riskVars, loopVars>>
                  ELSE LET l == record_trade(trade_limits, net_pnl, now_ms)
                       IN /\ trade_limits' = l
                          /\ is_trading_allowed' =
                               IF limits_exceeded(l, limits_cfg)
                               THEN evaluate(is_trading_allowed, l, limits_cfg)
                               ELSE is_trading_allowed
                          /\ last_pnl_check_ms' = now_ms
                          /\ checkpoint_file' = save_checkpoint(now_ms)
                          /\ last_position_open' = currently_open
                          /\ pc' = "sleep"
                          /\ step_log' = StepLog("pnl", "closed")
                          /\ UNCHANGED <<limits_cfg, now_ms>>
        ELSE /\ last_position_open' = currently_open
             /\ pc' = "sleep"
             /\ step_log' = StepLog("pnl", "ok")
             /\ UNCHANGED <<riskVars, last_pnl_check_ms, now_ms, checkpoint_file>>
  /\ UNCHANGED <<position, managerVars, clock, exPosition, bookVars, sync_log,
                 tracker_log, sideVars>>

\* _sleep_until_next_minute: the next cycle starts in this hour or the next.
MainSleep ==
  /\ pc = "sleep"
  /\ \E t \in {clock, clock + 1} :
       /\ t <= MaxClock
       /\ clock' = t
  /\ pc' = "sync"
  /\ step_log' = StepLog("sleep", "ok")
  /\ sync_log' = [NoSyncLog EXCEPT !.covered = sync_log.covered]
  /\ now_ms' = 0
  /\ UNCHANGED <<position, managerVars, riskVars, last_position_open,
                 last_pnl_check_ms, checkpoint_file, exPosition, bookVars,
                 tracker_log, sideVars>>

\* The exchange moves on its own at any time; the loop can tell only at the
\* steps that query it, so its moves are taken right before those steps.
ExchangeSeen == pc \in {"sync", "entry", "protect"}

\* The exchange closes the position: a protective order triggers, or the
\* account owner closes it.
ExchangeCloses ==
  /\ ExchangeSeen
  /\ exPosition # NoPos
  /\ exPosition' = NoPos
  /\ UNCHANGED <<pc, position, managerVars, riskVars, loopVars, clock, bookVars,
                 logVars, tracker_log, sideVars>>

\* A live protective order leaves the book: triggered, expired or cancelled by
\* the exchange.
ExchangeOrderGone ==
  /\ ExchangeSeen
  /\ \E v \in exOrders \cup { [orphan |-> k] : k \in { x \in {"TP", "SL"} : exOrphans[x] > 0 } } :
       IF v \in exOrders
       THEN exOrders' = exOrders \ {v} /\ UNCHANGED exOrphans
       ELSE exOrphans' = [exOrphans EXCEPT ![v.orphan] = @ - 1] /\ UNCHANGED exOrders
  /\ UNCHANGED <<pc, position, managerVars, riskVars, loopVars, clock, exPosition,
                 logVars, tracker_log, sideVars>>

Next ==
  \/ MainSync
  \/ MainLimits
  \/ MainCandles
  \/ MainEntry
  \/ MainProtect
  \/ MainPnl
  \/ MainSleep
  \/ ExchangeCloses
  \/ ExchangeOrderGone

Spec == Init /\ [][Next]_vars

\* The control loop under every limits configuration of LimitConfigs.
InitLimits ==
  /\ pc = "sync"
  /\ clock = 0
  /\ position = NoPos
  /\ tp_order_id = NoId
  /\ sl_order_id = NoId
  /\ is_protected = FALSE
  /\ filters_loaded = FALSE
  /\ in_cycle = FALSE
  /\ is_trading_allowed = TRUE
  /\ trade_limits = NewTradeLimits(0)
  /\ limits_cfg \in LimitConfigs
  /\ last_position_open = FALSE
  /\ checkpoint_file = NoCheckpoint
  /\ last_pnl_check_ms = 0
  /\ now_ms = 0
  /\ exPosition = NoPos
  /\ exOrders = {}
  /\ exOrphans = NoOrphans
  /\ step_log = StepLog("start", "ok")
  /\ sync_log = NoSyncLog
  /\ tracker_log = NoLog
  /\ risk_log = NoRiskLog
  /\ ledger = {}
  /\ calc_log = NoCalcLog
  /\ tmp_file = NoCheckpoint
  /\ save_log = NoSaveLog
  /\ pnl_log = NoPnlLog

SpecLimits == InitLimits /\ [][Next]_vars

\* Strictly positive limits, one each, that closed trades can pass.
TrippingConfigs ==
  { [DefaultLimits EXCEPT !.max_daily_loss = 1],
    [DefaultLimits EXCEPT !.max_trades_per_day = 1],
    [DefaultLimits EXCEPT !.max_trades_per_hour = 1] }

\* The control loop under limits that trip, started in the last hour of a day.
InitTripping ==
  /\ pc = "sync"
  /\ clock = -1
  /\ position = NoPos
  /\ tp_order_id = NoId
  /\ sl_order_id = NoId
  /\ is_protected = FALSE
  /\ filters_loaded = FALSE
  /\ in_cycle = FALSE
  /\ is_trading_allowed = TRUE
  /\ trade_limits = NewTradeLimits(clock)
  /\ limits_cfg \in TrippingConfigs
  /\ last_position_open = FALSE
  /\ checkpoint_file = NoCheckpoint
  /\ last_pnl_check_ms = 0
  /\ now_ms = 0
  /\ exPosition = NoPos
  /\ exOrders = {}
  /\ exOrphans = NoOrphans
  /\ step_log = StepLog("start", "ok")
  /\ sync_log = NoSyncLog
  /\ tracker_log = NoLog
  /\ risk_log = NoRiskLog
  /\ ledger = {}
  /\ calc_log = NoCalcLog
  /\ tmp_file = NoCheckpoint
  /\ save_log = NoSaveLog
  /\ pnl_log = NoPnlLog

SpecTripping == InitTripping /\ [][Next]_vars

\* The steps of one cycle, from its first statement to its sleep.
CycleSteps == {"sync", "limits", "candles", "entry", "protect", "pnl", "sleep"}

\* An interrupt signal (SIGINT): Python raises KeyboardInterrupt in the main
\* thread at whatever statement it is executing, and the only handler is the
\* one around the whole loop, which logs and returns. The interrupt is taken
\* here before the statement the loop stands at; nothing is undone or finished.
Interrupt ==
  /\ pc \in CycleSteps
  /\ pc' = "stopped"
  /\ UNCHANGED <<position, managerVars, riskVars, loopVars, clock, exPosition,
                 bookVars, logVars, tracker_log, sideVars>>

NextShutdown == Next \/ Interrupt

\* The control loop with an operator who may interrupt it.
SpecShutdown == Init /\ [][NextShutdown]_vars

-----------------------------------------------------------------------------
\* The tracker on its own: every PositionTracker operation against an exchange
\* whose position moves freely over a grid fine enough to fall inside and
\* outside the tolerance.

TrackerPositions ==
  { Position(s, q, p, t) : s \in Sides, q \in BaseQty..(BaseQty + Spread),
                           p \in {BasePrice, BasePrice + Spread},
                           t \in 0..MaxEntryTime }

InitTracker ==
  /\ pc = "tracker"
  /\ clock = 0
  /\ position = NoPos
  /\ tp_order_id = NoId
  /\ sl_order_id = NoId
  /\ is_protected = FALSE
  /\ filters_loaded = FALSE
  /\ in_cycle = FALSE
  /\ is_trading_allowed = TRUE
  /\ trade_limits = NewTradeLimits(0)
  /\ limits_cfg = DefaultLimits
  /\ last_position_open = FALSE
  /\ checkpoint_file = NoCheckpoint
  /\ last_pnl_check_ms = 0
  /\ now_ms = 0
  /\ exPosition = NoPos
  /\ exOrders = {}
  /\ exOrphans = NoOrphans
  /\ step_log = StepLog("start", "ok")
  /\ sync_log = NoSyncLog
  /\ tracker_log = NoLog
  /\ risk_log = NoRiskLog
  /\ ledger = {}
  /\ calc_log = NoCalcLog
  /\ tmp_file = NoCheckpoint
  /\ save_log = NoSaveLog
  /\ pnl_log = NoPnlLog

TrackerSync ==
  /\ pc = "tracker"
  /\ \E outcome \in GetOutcomes :
       /\ position' = sync_from_exchange(position, outcome, exPosition)
       /\ tracker_log' = [op |-> "sync", pre |-> position,
                          remote |-> IF outcome = "ok" THEN exPosition ELSE NoPos,
                          outcome |-> outcome]
  /\ UNCHANGED <<pc, exPosition, loopOnlyVars>>

\* set_position, called by EntryExecutor on a confirmed fill.
TrackerSet ==
  /\ pc = "tracker"
  /\ \E p \in TrackerPositions :
       /\ position' = p
       /\ tracker_log' = [op |-> "set", pre |-> position, remote |-> NoPos,
                          outcome |-> "ok"]
  /\ UNCHANGED <<pc, exPosition, loopOnlyVars>>

\* clear_position, called by TpSlManager.sync when the exchange is flat.
TrackerClear ==
  /\ pc = "tracker"
  /\ position' = NoPos
  /\ tracker_log' = [op |-> "clear", pre |-> position, remote |-> NoPos,
                     outcome |-> "ok"]
  /\ UNCHANGED <<pc, exPosition, loopOnlyVars>>

\* The exchange opens, changes or closes the position.
TrackerExchangeMoves ==
  /\ pc = "tracker"
  /\ \E p \in TrackerPositions \cup {NoPos} :
       /\ p # exPosition
       /\ exPosition' = p
  /\ UNCHANGED <<pc, position, tracker_log, loopOnlyVars>>

NextTracker == TrackerSync \/ TrackerSet \/ TrackerClear \/ TrackerExchangeMoves

SpecTracker == InitTracker /\ [][NextTracker]_vars

-----------------------------------------------------------------------------
\* TradeLimits and KillSwitch on their own: every method, called in any order
\* with any time and any PnL, under every combination of limits.

\* Times handed to TradeLimits, in hours: more than one year.
MaxNow == 4

\* Trades recorded per day.
MaxCount == 2

\* A configured daily-loss limit may be written with either sign.
RiskConfigs ==
  [max_daily_loss : {NoLimit, 1, -2},
   max_trades_per_day : {NoLimit, 0, 1},
   max_trades_per_hour : {NoLimit, 0, 1}]

RiskLog(op, now, pnl) ==
  [op |-> op, pre |-> trade_limits, pre_allowed |-> is_trading_allowed,
   now |-> now, pnl |-> pnl,
   exceeded |-> limits_exceeded(trade_limits, limits_cfg),
   tripped |-> risk_log.tripped]

InitRisk ==
  /\ pc = "risk"
  /\ clock = 0
  /\ position = NoPos
  /\ tp_order_id = NoId
  /\ sl_order_id = NoId
  /\ is_protected = FALSE
  /\ filters_loaded = FALSE
  /\ in_cycle = FALSE
  /\ is_trading_allowed = TRUE
  /\ trade_limits \in { NewTradeLimitsAt(t, t2) : t \in 0..1, t2 \in 0..2 } \ { NewTradeLimitsAt(0, 2), NewTradeLimitsAt(1, 0) }
  /\ limits_cfg \in RiskConfigs
  /\ last_position_open = FALSE
  /\ checkpoint_file = NoCheckpoint
  /\ last_pnl_check_ms = 0
  /\ now_ms = 0
  /\ exPosition = NoPos
  /\ exOrders = {}
  /\ exOrphans = NoOrphans
  /\ step_log = StepLog("start", "ok")
  /\ sync_log = NoSyncLog
  /\ tracker_log = NoLog
  /\ risk_log = NoRiskLog
  /\ ledger = {}
  /\ calc_log = NoCalcLog
  /\ tmp_file = NoCheckpoint
  /\ save_log = NoSaveLog
  /\ pnl_log = NoPnlLog

\* Everything the risk harness leaves alone.
riskOnlyVars ==
  <<pc, position, managerVars, limits_cfg, loopVars, clock, exPosition, bookVars,
    logVars, tracker_log, ledger, pnl_log, calc_log, tmp_file, save_log>>

RiskResetIfNeeded ==
  /\ pc = "risk"
  /\ \E now \in 0..MaxNow :
       /\ trade_limits' = reset_if_needed(trade_limits, now)
       /\ risk_log' = RiskLog("reset_if_needed", now, 0)
  /\ UNCHANGED <<is_trading_allowed, riskOnlyVars>>

RiskRecordTrade ==
  /\ pc = "risk"
  /\ \E now \in 0..MaxNow, pnl \in PnlValues :
       /\ reset_if_needed(trade_limits, now).daily_trades < MaxCount
       /\ trade_limits' = record_trade(trade_limits, pnl, now)
       /\ risk_log' = RiskLog("record_trade", now, pnl)
  /\ UNCHANGED <<is_trading_allowed, riskOnlyVars>>

\* limits_exceeded(): the result is logged in exceeded.
RiskLimitsExceeded ==
  /\ pc = "risk"
  /\ risk_log' = RiskLog("limits_exceeded", 0, 0)
  /\ UNCHANGED <<is_trading_allowed, trade_limits, riskOnlyVars>>

\* evaluate(limits): tripped remembers that an evaluate saw the limits exceeded.
RiskEvaluate ==
  /\ pc = "risk"
  /\ is_trading_allowed' = evaluate(is_trading_allowed, trade_limits, limits_cfg)
  /\ risk_log' = [RiskLog("evaluate", 0, 0) EXCEPT
                    !.tripped = @ \/ limits_exceeded(trade_limits, limits_cfg)]
  /\ UNCHANGED <<trade_limits, riskOnlyVars>>

RiskResetDaily ==
  /\ pc = "risk"
  /\ is_trading_allowed' = reset_daily(is_trading_allowed)
  /\ risk_log' = [RiskLog("reset_daily", 0, 0) EXCEPT !.tripped = FALSE]
  /\ UNCHANGED <<trade_limits, riskOnlyVars>>

NextRisk ==
  \/ RiskResetIfNeeded
  \/ RiskRecordTrade
  \/ RiskLimitsExceeded
  \/ RiskEvaluate
  \/ RiskResetDaily

SpecRisk == InitRisk /\ [][NextRisk]_vars

-----------------------------------------------------------------------------
\* The PnL attribution on its own: the loop's time base, close detection,
\* watermark and checkpoint over start-ups, against an exchange that books a
\* realized-PnL or funding entry at the time a position closes.

\* Wall-clock ticks followed; the first start-up is at tick 1.
MaxTime == 5

\* Watermarks a checkpoint file may hold at the first start-up.
MaxWatermark == 11
Watermarks == (-1)..MaxWatermark

\* Entries the exchange books.
MaxEntries == 2

\* The position the harness opens.
PnlPosition == Position("LONG", BaseQty, BasePrice, 0)

\* get_user_trades_history / get_income_history: startTime is sent only when
\* start_time_ms is truthy; the exchange returns the entries at or after it.
entries_since(entries, start_time_ms) ==
  IF start_time_ms # 0 THEN { e \in entries : e >= start_time_ms } ELSE entries

InitPnl ==
  /\ pc = "boot"
  /\ clock = 1
  /\ position = NoPos
  /\ tp_order_id = NoId
  /\ sl_order_id = NoId
  /\ is_protected = FALSE
  /\ filters_loaded = FALSE
  /\ in_cycle = FALSE
  /\ is_trading_allowed = TRUE
  /\ trade_limits = NewTradeLimits(0)
  /\ limits_cfg = DefaultLimits
  /\ last_position_open = FALSE
  /\ last_pnl_check_ms = 0
  /\ now_ms = 0
  /\ exPosition = NoPos
  /\ exOrders = {}
  /\ exOrphans = NoOrphans
  /\ step_log = StepLog("start", "ok")
  /\ sync_log = NoSyncLog
  /\ tracker_log = NoLog
  /\ risk_log = NoRiskLog
  /\ ledger = {}
  /\ calc_log = NoCalcLog
  /\ tmp_file = NoCheckpoint
  /\ save_log = NoSaveLog
  /\ \/ /\ checkpoint_file = NoCheckpoint
        /\ pnl_log = NoPnlLog
     \/ \E w \in Watermarks :
          /\ checkpoint_file = save_checkpoint(w)
          /\ pnl_log = [NoPnlLog EXCEPT !.has_saved = TRUE, !.saved = w]

\* Everything the PnL harness leaves alone.
pnlOnlyVars ==
  <<managerVars, riskVars, bookVars, logVars, tracker_log, risk_log, calc_log,
    tmp_file, save_log>>

\* main() up to its loop: load the checkpoint, fresh objects.
PnlStart ==
  /\ pc = "boot"
  /\ last_pnl_check_ms' = start_watermark(checkpoint_file, clock)
  /\ last_position_open' = FALSE
  /\ position' = NoPos
  /\ now_ms' = 0
  /\ pnl_log' = [pnl_log EXCEPT !.op = "start", !.had_saved = pnl_log.has_saved,
                                !.loaded = pnl_log.saved, !.after_start = TRUE]
  /\ pc' = "top"
  /\ UNCHANGED <<checkpoint_file, clock, exPosition, ledger, pnlOnlyVars>>

\* The head of a cycle: the tracker reconciles and now_ms is read.
PnlTop ==
  /\ pc = "top"
  /\ position' = sync_from_exchange(position, "ok", exPosition)
  /\ now_ms' = clock
  /\ pc' = "mid"
  /\ UNCHANGED <<last_position_open, last_pnl_check_ms, checkpoint_file, clock,
                 exPosition, ledger, pnl_log, pnlOnlyVars>>

\* The entry step and tp_sl_manager.sync(): an entry may open a position when
\* there is none; the sync leaves the tracker with what the exchange holds.
PnlMid ==
  /\ pc = "mid"
  /\ \E signal \in BOOLEAN :
       LET ex == IF signal /\ ~has_open_position(position) /\ exPosition = NoPos
                 THEN PnlPosition ELSE exPosition
       IN /\ exPosition' = ex
          /\ position' = ex
  /\ pc' = "end"
  /\ UNCHANGED <<last_position_open, last_pnl_check_ms, now_ms, checkpoint_file,
                 clock, ledger, pnl_log, pnlOnlyVars>>

\* Close detection and PnL attribution, main.py lines 88 to 110, and the
\* sleep to the next minute.
PnlEnd ==
  /\ pc = "end"
  /\ LET currently_open == has_open_position(position)
     IN /\ IF close_transition(last_position_open, currently_open)
           THEN /\ pnl_log' = [pnl_log EXCEPT
                                 !.op = "attribute",
                                 !.start = last_pnl_check_ms,
                                 !.summed = entries_since(ledger, last_pnl_check_ms),
                                 !.prev_summed = pnl_log.summed,
                                 !.has_saved = TRUE,
                                 !.saved = now_ms,
                                 !.after_start = (pnl_log.op = "start")]
                /\ last_pnl_check_ms' = now_ms
                /\ checkpoint_file' = save_checkpoint(now_ms)
           ELSE UNCHANGED <<pnl_log, last_pnl_check_ms, checkpoint_file>>
        /\ last_position_open' = currently_open
  /\ clock < MaxTime
  /\ clock' = clock + 1
  /\ pc' = "top"
  /\ UNCHANGED <<position, now_ms, exPosition, ledger, pnlOnlyVars>>

\* Time passes, at any point of a cycle.
PnlTick ==
  /\ pc \in {"boot", "top", "mid", "end"}
  /\ clock < MaxTime
  /\ clock' = clock + 1
  /\ UNCHANGED <<pc, position, loopVars, exPosition, ledger, pnl_log, pnlOnlyVars>>

\* The exchange closes the position and books the closing fill's realized
\* PnL at the current time.
PnlExchangeCloses ==
  /\ pc \in {"boot", "top", "mid", "end"}
  /\ exPosition # NoPos
  /\ Cardinality(ledger) < MaxEntries
  /\ exPosition' = NoPos
  /\ ledger' = ledger \cup {clock}
  /\ UNCHANGED <<pc, position, loopVars, clock, pnl_log, pnlOnlyVars>>

\* The process ends and is started again; the file and the exchange stay.
PnlRestart ==
  /\ pc \in {"top", "mid", "end"}
  /\ pc' = "boot"
  /\ UNCHANGED <<position, loopVars, clock, exPosition, ledger, pnl_log, pnlOnlyVars>>

NextPnl ==
  \/ PnlStart
  \/ PnlTop
  \/ PnlMid
  \/ PnlEnd
  \/ PnlTick
  \/ PnlExchangeCloses
  \/ PnlRestart

SpecPnl == InitPnl /\ [][NextPnl]_vars

-----------------------------------------------------------------------------
\* save_checkpoint step by step, with a process that can stop at any step and
\* start again: the two files are all that survives.

\* checkpoint.py:12, a path as its parts
DEFAULT_PATH == <<"checkpoint.json">>

\* tmp_path = f"{path}.tmp"
tmp_path_SameFile(path) == path

tmp_path(path) == Append(path, ".tmp")

\* The text of the file at a path; no text when there is no such file.
FileText(name) == IF name = DEFAULT_PATH THEN checkpoint_file ELSE tmp_file

\* The file at a path gets a text; the other file stays.
WriteFile(name, text) ==
  IF name = DEFAULT_PATH
  THEN checkpoint_file' = text /\ UNCHANGED tmp_file
  ELSE tmp_file' = text /\ UNCHANGED checkpoint_file

\* os.replace(src, dst): dst gets src's text and src is no more; nothing
\* happens when both are the same file.
os_replace(src, dst) ==
  IF src = dst THEN UNCHANGED <<checkpoint_file, tmp_file>>
  ELSE /\ checkpoint_file' = FileText(src)
       /\ tmp_file' = NoCheckpoint

\* The texts a checkpoint file can hold when a save begins.
SavedTexts == {NoCheckpoint} \cup { save_checkpoint(w) : w \in Watermarks }

InitSave ==
  /\ pc = "idle"
  /\ clock = 0
  /\ position = NoPos
  /\ tp_order_id = NoId
  /\ sl_order_id = NoId
  /\ is_protected = FALSE
  /\ filters_loaded = FALSE
  /\ in_cycle = FALSE
  /\ is_trading_allowed = TRUE
  /\ trade_limits = NewTradeLimits(0)
  /\ limits_cfg = DefaultLimits
  /\ last_position_open = FALSE
  /\ checkpoint_file \in SavedTexts
  /\ last_pnl_check_ms = 0
  /\ now_ms = 0
  /\ exPosition = NoPos
  /\ exOrders = {}
  /\ exOrphans = NoOrphans
  /\ step_log = StepLog("start", "ok")
  /\ sync_log = NoSyncLog
  /\ tracker_log = NoLog
  /\ risk_log = NoRiskLog
  /\ ledger = {}
  /\ calc_log = NoCalcLog
  /\ pnl_log = NoPnlLog
  /\ tmp_file = NoCheckpoint
  /\ save_log = [NoSaveLog EXCEPT !.old = checkpoint_file, !.new = checkpoint_file]

\* Everything the save harness leaves alone.
saveOnlyVars ==
  <<position, managerVars, riskVars, last_position_open, last_pnl_check_ms, now_ms,
    clock, exPosition, bookVars, logVars, tracker_log, risk_log, ledger, pnl_log,
    calc_log>>

\* open(tmp_path, "w"): the file is created, or cut to no text.
SaveOpen ==
  /\ pc = "idle"
  /\ \E w \in Watermarks :
       save_log' = [NoSaveLog EXCEPT !.op = "save", !.old = checkpoint_file,
                                     !.new = save_checkpoint(w)]
  /\ WriteFile(tmp_path(DEFAULT_PATH), NoCheckpoint)
  /\ pc' = "dump"
  /\ UNCHANGED saveOnlyVars

\* json.dump(data, f) and the close of the file: the text reaches the file a
\* piece at a time.
SaveDump ==
  /\ pc = "dump"
  /\ LET f == tmp_path(DEFAULT_PATH)
         k == Len(FileText(f)) + 1
     IN /\ WriteFile(f, SubSeq(save_log.new, 1, k))
        /\ pc' = IF k = Len(save_log.new) THEN "replace" ELSE "dump"
  /\ UNCHANGED <<save_log, saveOnlyVars>>

\* os.replace(tmp_path, path)
SaveReplace ==
  /\ pc = "replace"
  /\ os_replace(tmp_path(DEFAULT_PATH), DEFAULT_PATH)
  /\ save_log' = [save_log EXCEPT !.op = "saved"]
  /\ pc' = "idle"
  /\ UNCHANGED saveOnlyVars

\* The process stops during a save: killed, or json.dump raised.
SaveStops ==
  /\ pc \in {"dump", "replace"}
  /\ save_log' = [save_log EXCEPT !.stopped_at = pc]
  /\ pc' = "down"
  /\ UNCHANGED <<checkpoint_file, tmp_file, saveOnlyVars>>

\* The next start: main() calls load_checkpoint().
SaveLoad ==
  /\ pc = "down"
  /\ save_log' = [save_log EXCEPT !.op = "load",
                                  !.loaded = load_checkpoint(FileText(DEFAULT_PATH))]
  /\ pc' = "idle"
  /\ UNCHANGED <<checkpoint_file, tmp_file, saveOnlyVars>>

NextSave == SaveOpen \/ SaveDump \/ SaveReplace \/ SaveStops \/ SaveLoad

SpecSave == InitSave /\ [][NextSave]_vars

-----------------------------------------------------------------------------
\* The pure helpers on their own: a behaviour is one call of one helper on
\* inputs drawn from small sets, logged with what the call returned.

\* compute_position_size's arguments: negative, zero and positive ones, and
\* the worked example of 10000 at 0.1% risk, 50000 and a 1% stop.
SizerEquities == Equities \cup {-1, 1}
SizerPrices == {-1, 0, 5}
SizerPercents == {Rat(-1, 100), Rat(0, 1), Rat(1, 1000), Rat(1, 100)}
SizerExample ==
  [equity |-> 10000, risk_percent |-> Rat(1, 1000), entry_price |-> 50000,
   sl_percent |-> Rat(1, 100)]
SizerInputs ==
  [equity : SizerEquities, risk_percent : SizerPercents,
   entry_price : SizerPrices, sl_percent : SizerPercents] \cup {SizerExample}

InitCalc ==
  /\ pc = "calc"
  /\ clock = 0
  /\ position = NoPos
  /\ tp_order_id = NoId
  /\ sl_order_id = NoId
  /\ is_protected = FALSE
  /\ filters_loaded \in BOOLEAN
  /\ in_cycle = FALSE
  /\ is_trading_allowed = TRUE
  /\ trade_limits = NewTradeLimits(0)
  /\ limits_cfg = DefaultLimits
  /\ last_position_open = FALSE
  /\ checkpoint_file = NoCheckpoint
  /\ last_pnl_check_ms = 0
  /\ now_ms = 0
  /\ exPosition = NoPos
  /\ exOrders = {}
  /\ exOrphans = NoOrphans
  /\ step_log = StepLog("start", "ok")
  /\ sync_log = NoSyncLog
  /\ tracker_log = NoLog
  /\ risk_log = NoRiskLog
  /\ ledger = {}
  /\ pnl_log = NoPnlLog
  /\ calc_log = NoCalcLog
  /\ tmp_file = NoCheckpoint
  /\ save_log = NoSaveLog

\* Everything the calculation harness leaves alone.
calcOnlyVars ==
  <<position, managerVars, riskVars, loopVars, clock, exPosition, bookVars,
    logVars, tracker_log, risk_log, ledger, pnl_log, tmp_file, save_log>>

\* compute_position_size(equity, risk_percent, entry_price, sl_percent)
CalcSize ==
  /\ pc = "calc"
  /\ pc' = "called"
  /\ \E a \in SizerInputs :
       calc_log' = [op |-> "compute_position_size", args |-> a,
                    result |-> compute_position_size(a.equity, a.risk_percent,
                                                     a.entry_price, a.sl_percent)]
  /\ UNCHANGED calcOnlyVars

\* EntryExecutor.process from the equity check on, with the configured
\* percentages, on a flat account.
CalcEnter ==
  /\ pc = "calc"
  /\ pc' = "called"
  /\ \E signal \in Sides, equity \in SizerEquities, entry_price \in SizerPrices :
       \E w \in enter_sized(World, signal, entry_price, equity) :
         calc_log' = [op |-> "enter", signal |-> signal, equity |-> equity,
                      entry_price |-> entry_price,
                      size |-> compute_position_size(equity, RISK_PERCENT,
                                                     entry_price, SL_PERCENT),
                      submits |-> w.submits, committed |-> w.committed,
                      pos |-> w.pos, exc |-> w.exc, exPos |-> w.exPos,
                      market_calls |-> w.market_calls, end |-> w.entry_end,
                      fills |-> w.fills]
  /\ UNCHANGED calcOnlyVars

\* What the tracker and the exchange can hold when process() is called: no
\* position, or one of BaseQty.
ProcessPositions == {NoPos, Position("LONG", BaseQty, BasePrice, 0)}

\* EntryExecutor.process, also entered while a call of it is under way.
CalcProcess ==
  /\ pc = "calc"
  /\ pc' = "called"
  /\ \E flag \in BOOLEAN, closes \in 0..MaxKlines, local \in ProcessPositions,
        remote \in ProcessPositions :
       \E w \in process([World EXCEPT !.in_cycle = flag, !.pos = local,
                                      !.exPos = remote], closes) :
         calc_log' = [op |-> "process", flag |-> flag, closes |-> closes,
                      local |-> local, remote |-> remote, held |-> w.held,
                      in_cycle |-> w.in_cycle, queries |-> w.queries,
                      market_calls |-> w.market_calls, submits |-> w.submits,
                      committed |-> w.committed, exc |-> w.exc, pos |-> w.pos,
                      exPos |-> w.exPos, end |-> w.entry_end]
  /\ UNCHANGED calcOnlyVars

\* The numbers handed to the rounding: fractions of grid units, negative, zero
\* and positive, on and off the step.
MaxRoundNum == 7
MaxRoundDen == 3
MaxStep == 3
RoundInputs == { Rat(n, d) : n \in (-MaxRoundNum)..MaxRoundNum, d \in 1..MaxRoundDen }

\* _round_qty / _round_price on x, under the filter loaded and under any step.
CalcRound ==
  /\ pc = "calc"
  /\ pc' = "called"
  /\ \E x \in RoundInputs, step \in 1..MaxStep :
       calc_log' = [op |-> "round", x |-> x, step |-> step,
                    result |-> floor_to_step(x, step),
                    qty |-> round_qty(x), price |-> round_price(x)]
  /\ UNCHANGED calcOnlyVars

\* OrderManager.place_market_order(symbol, side, quantity) on a flat account.
CalcMarketOrder ==
  /\ pc = "calc"
  /\ pc' = "called"
  /\ \E side \in {"BUY", "SELL"}, quantity \in RoundInputs :
       \E m \in place_market_order(World, side, quantity, BasePrice) :
         calc_log' = [op |-> "place_market_order", side |-> side,
                      quantity |-> quantity, sent_qty |-> m.qty,
                      submits |-> m.w2.submits, exPos |-> m.w2.exPos,
                      exc |-> m.w2.exc]
  /\ UNCHANGED calcOnlyVars

\* The fills handed to compute_avg_fill: up to two, of zero or positive
\* quantity, at one of two prices.
FillEntries == [qty : {0, StepSize, BaseQty}, price : {BasePrice, BasePrice + Spread}]
FillLists == {<<>>} \cup { <<a>> : a \in FillEntries }
               \cup { <<a, b>> : a \in FillEntries, b \in FillEntries }

\* OrderManager.compute_avg_fill(trades)
CalcAvgFill ==
  /\ pc = "calc"
  /\ pc' = "called"
  /\ \E trades \in FillLists :
       calc_log' = [op |-> "compute_avg_fill", trades |-> trades,
                    result |-> compute_avg_fill(trades)]
  /\ UNCHANGED calcOnlyVars

\* The positions handed to _place_protection: both sides, at a small entry
\* price and at 50010.0 counted in ticks of 0.1.
ProtectEntries == {BasePrice * 100, 500100}
ProtectPositions == { Position(side, BaseQty, e, 0) : side \in Sides, e \in ProtectEntries }

\* TpSlManager._place_protection(position), no order id held.
CalcProtect ==
  /\ pc = "calc"
  /\ pc' = "called"
  /\ \E pos \in ProtectPositions :
       \E w \in place_protection([World EXCEPT !.pos = pos, !.exPos = pos], pos) :
         calc_log' = [op |-> "place_protection", pos |-> pos,
                      prices |-> compute_prices(pos.entry_price, pos.side),
                      requests |-> w.requests, tp |-> w.tp, sl |-> w.sl,
                      exc |-> w.exc]
  /\ UNCHANGED calcOnlyVars

\* One wrapped transport call: attempts says how each invocation of the
\* underlying request would end, one more than the wrapper can make.
CalcRetry ==
  /\ pc = "calc"
  /\ pc' = "called"
  /\ \E attempts \in [1..(MAX_RETRIES + 2) -> AttemptResults] :
       calc_log' = [op |-> "retry", attempts |-> attempts, result |-> retry(attempts)]
  /\ UNCHANGED calcOnlyVars

NextCalc ==
  \/ CalcRetry
  \/ CalcProtect
  \/ CalcSize
  \/ CalcEnter
  \/ CalcProcess
  \/ CalcRound
  \/ CalcMarketOrder
  \/ CalcAvgFill

SpecCalc == InitCalc /\ [][NextCalc]_vars

-----------------------------------------------------------------------------
\* Claims on PositionTracker

Differs(local, remote) ==
  \/ local.side # remote.side
  \/ Abs(local.quantity - remote.quantity) > Tolerance
  \/ Abs(local.entry_price - remote.entry_price) > Tolerance

\* C9: after a successful sync_from_exchange in which the exchange reports a
\* non-zero position, the local position equals the remote one exactly if there
\* was no local position or it differed in side, or by more than the tolerance
\* in quantity or entry price; otherwise the local position is unchanged.
C9_AdoptOrOverwrite ==
  (tracker_log.op = "sync" /\ tracker_log.outcome = "ok" /\ tracker_log.remote # NoPos) =>
    IF tracker_log.pre = NoPos \/ Differs(tracker_log.pre, tracker_log.remote)
    THEN position = tracker_log.remote
    ELSE position = tracker_log.pre

\* The case inside the tolerance: remote and local differ (by one unit of
\* quantity, or in entry time) and the local position is kept.
C9_Witness ==
  /\ tracker_log.op = "sync"
  /\ tracker_log.outcome = "ok"
  /\ tracker_log.remote # NoPos
  /\ tracker_log.pre # NoPos
  /\ tracker_log.pre # tracker_log.remote
  /\ ~Differs(tracker_log.pre, tracker_log.remote)
  /\ position = tracker_log.pre

-----------------------------------------------------------------------------
\* Claims on TpSlManager and the control loop

\* C1: after any sync() returns, is_protected implies that both tp_order_id and
\* sl_order_id are set, also when placing a leg failed.
C1_ProtectedHasBothIds ==
  (sync_log.view # "none" /\ sync_log.exc = "none" /\ is_protected) =>
    (tp_order_id # NoId /\ sl_order_id # NoId)

\* C2: a sync() that starts UNPROTECTED with a remote position present and in
\* which the placement of a leg fails returns UNPROTECTED.
C2_LegFailureStaysUnprotected ==
  (/\ sync_log.view = "present"
   /\ ~sync_log.pre_prot
   /\ sync_log.leg_failed
   /\ sync_log.exc = "none") => ~is_protected

\* C3: in one cycle at most one market-order submission reaches the exchange,
\* also when the transport call times out after the request was sent.
C3_OneSubmissionPerCycle ==
  step_log.step = "entry" => step_log.submits <= 1

\* C4: a BinanceAPIError raised in the entry step aborts only the entry: the
\* loop goes on to tp_sl_manager.sync() in the same cycle.
C4_EntryErrorAbortsOnlyEntry ==
  (step_log.step = "entry" /\ step_log.outcome = "BinanceAPIError") => pc = "protect"

\* C5: a candle fetch that raises ValueError makes the loop skip the cycle and
\* go on with the next one.
C5_InvalidCandlesSkipCycle ==
  (step_log.step = "candles" /\ step_log.outcome = "ValueError") => pc = "sleep"

\* The live orders of a kind on the exchange's book, addressable or not.
LiveOfKind(kind) ==
  Cardinality({ o \in exOrders : o.kind = kind }) + exOrphans[kind]

\* C6: at the end of every cycle the exchange holds at most one live
\* take-profit order and at most one live stop-loss order.
C6_OneLiveOrderPerKind ==
  pc = "sleep" => (LiveOfKind("TP") <= 1 /\ LiveOfKind("SL") <= 1)

\* C7: a sync() in state PROTECTED to which the exchange reports the open
\* position places no order, cancels no order, and leaves tp_order_id,
\* sl_order_id and is_protected unchanged.
C7_ProtectedSyncIdempotent ==
  (sync_log.pre_prot /\ sync_log.view = "present") =>
    /\ sync_log.exc = "none"
    /\ sync_log.places = 0
    /\ sync_log.cancels = 0
    /\ tp_order_id = sync_log.pre_tp
    /\ sl_order_id = sync_log.pre_sl
    /\ is_protected

\* Such a sync happened, with both legs in place before it.
C7_Witness ==
  /\ sync_log.pre_prot
  /\ sync_log.view = "present"
  /\ sync_log.pre_tp # NoId
  /\ sync_log.pre_sl # NoId
  /\ tp_order_id = sync_log.pre_tp
  /\ is_protected

\* C10: when the account query of sync_from_exchange fails, the loop observes
\* the failure and skips the rest of the cycle.
C10_FailedSyncSkipsCycle ==
  (step_log.step = "sync" /\ step_log.outcome = "api_error") => pc = "sleep"

\* C11: process() submits no market order in a cycle in which the tracker has
\* an open position after the reconciliation step.
C11_NoEntryWhileOpen ==
  (step_log.step = "entry" /\ step_log.held) =>
    (step_log.submits = 0 /\ ~step_log.committed)

\* Such an entry step ran: the tracker held a position the exchange still has.
C11_Witness ==
  /\ step_log.step = "entry"
  /\ step_log.held
  /\ step_log.outcome = "ok"
  /\ has_open_position(position)
  /\ exPosition # NoPos

-----------------------------------------------------------------------------
\* Claims on the kill switch and the trade limits

\* C12: in the control loop is_trading_allowed changes from false back to true
\* only in a cycle whose UTC day differs from the stored day bucket, the day
\* of the cycle in which the switch tripped; an hour rollover alone never
\* re-enables trading.
C12_ReenabledOnlyOnNewDay ==
  [][(~is_trading_allowed /\ is_trading_allowed')
       => day_of(clock) # trade_limits.current_day]_vars

\* C13: evaluate() never changes is_trading_allowed from false to true: once an
\* evaluate call has seen the limits exceeded, is_trading_allowed stays false
\* over later evaluate calls with any limits state, and only reset_daily()
\* sets it back to true.
C13_EvaluateOneWay ==
  /\ (risk_log.op # "reset_daily" /\ ~risk_log.pre_allowed) => ~is_trading_allowed
  /\ risk_log.tripped => ~is_trading_allowed

\* An evaluate call on a tripped switch with limits that are no longer
\* exceeded.
C13_Witness ==
  /\ risk_log.op = "evaluate"
  /\ risk_log.tripped
  /\ ~risk_log.pre_allowed
  /\ ~risk_log.exceeded
  /\ ~is_trading_allowed

\* C14: in a cycle where is_trading_allowed is false at the entry gate no
\* market order is submitted and the loop goes on to tp_sl_manager.sync(); a
\* cycle whose entry was skipped ends after the sync and the close detection
\* have run.
C14_GateBlocksOnlyEntry ==
  /\ (step_log.step = "entry" /\ ~is_trading_allowed) =>
       /\ step_log.outcome = "skipped"
       /\ step_log.submits = 0
       /\ ~step_log.committed
       /\ pc = "protect"
  /\ (pc = "sleep" /\ sync_log.entry = "skipped") =>
       /\ step_log.step = "pnl"
       /\ sync_log.view # "none"
       /\ last_position_open = has_open_position(position)

\* A cycle with the switch tripped ran to its end.
C14_Witness ==
  /\ pc = "sleep"
  /\ sync_log.entry = "skipped"
  /\ step_log.step = "pnl"
  /\ ~is_trading_allowed

\* C16: record_trade is called exactly once in every cycle that ends without
\* an open position after the previous cycle ended with one, and in no other
\* cycle; in every other step daily_trades, hourly_trades and daily_loss
\* change only by a bucket reset to zero.
C16_RecordOnlyOnCloseTransition ==
  [][/\ (pc = "pnl" /\ pc' = "sleep") =>
          IF last_position_open /\ ~has_open_position(position)
          THEN /\ trade_limits'.daily_trades = trade_limits.daily_trades + 1
               /\ trade_limits'.hourly_trades = trade_limits.hourly_trades + 1
               /\ trade_limits'.daily_loss <= trade_limits.daily_loss
          ELSE trade_limits' = trade_limits
     /\ ~(pc = "pnl" /\ pc' = "sleep") =>
          /\ trade_limits'.daily_trades \in {trade_limits.daily_trades, 0}
          /\ trade_limits'.hourly_trades \in {trade_limits.hourly_trades, 0}
          /\ trade_limits'.daily_loss \in {trade_limits.daily_loss, 0}
     /\ pc \notin {"pnl", "limits"} => trade_limits' = trade_limits]_vars

\* A cycle ended with the close of a losing trade attributed.
C16_Witness ==
  /\ pc = "sleep"
  /\ step_log = StepLog("pnl", "closed")
  /\ ~last_position_open
  /\ trade_limits.daily_trades = 1
  /\ trade_limits.daily_loss < 0

\* C17: reset_if_needed(now): when the day of now differs from the stored day
\* bucket, daily_trades and daily_loss become 0; when the hour bucket of now
\* differs from the stored one, hourly_trades becomes 0; the stored buckets
\* become those of now; when both buckets match, no field changes.
C17_ResetIfNeeded ==
  risk_log.op = "reset_if_needed" =>
    LET pre == risk_log.pre
        new_day == day_of(risk_log.now) # pre.current_day
        new_hour == hour_key(risk_log.now) # pre.current_hour_key
    IN /\ trade_limits.daily_trades = (IF new_day THEN 0 ELSE pre.daily_trades)
       /\ trade_limits.daily_loss = (IF new_day THEN 0 ELSE pre.daily_loss)
       /\ trade_limits.hourly_trades = (IF new_hour THEN 0 ELSE pre.hourly_trades)
       /\ trade_limits.current_day = day_of(risk_log.now)
       /\ trade_limits.current_hour_key = hour_key(risk_log.now)
       /\ (~new_day /\ ~new_hour) => trade_limits = pre

\* A day rollover that clears a count and a loss.
C17_Witness ==
  /\ risk_log.op = "reset_if_needed"
  /\ day_of(risk_log.now) # risk_log.pre.current_day
  /\ risk_log.pre.daily_trades > 0
  /\ risk_log.pre.daily_loss < 0
  /\ trade_limits.daily_trades = 0
  /\ trade_limits.daily_loss = 0

\* C18: record_trade(pnl, now) applies reset_if_needed(now) first, then adds 1
\* to daily_trades and to hourly_trades and adds pnl to daily_loss only when
\* pnl < 0; daily_loss is never positive, and a winning trade does not move it.
C18_RecordTrade ==
  /\ trade_limits.daily_loss <= 0
  /\ risk_log.op = "record_trade" =>
       LET pre == risk_log.pre
           new_day == day_of(risk_log.now) # pre.current_day
           new_hour == hour_key(risk_log.now) # pre.current_hour_key
           loss == IF new_day THEN 0 ELSE pre.daily_loss
       IN /\ trade_limits.daily_trades = (IF new_day THEN 0 ELSE pre.daily_trades) + 1
          /\ trade_limits.hourly_trades = (IF new_hour THEN 0 ELSE pre.hourly_trades) + 1
          /\ trade_limits.daily_loss = (IF risk_log.pnl < 0 THEN loss + risk_log.pnl ELSE loss)
          /\ trade_limits.current_day = day_of(risk_log.now)
          /\ trade_limits.current_hour_key = hour_key(risk_log.now)

\* A winning trade recorded on top of an accumulated loss.
C18_Witness ==
  /\ risk_log.op = "record_trade"
  /\ risk_log.pnl > 0
  /\ risk_log.pre.daily_loss < 0
  /\ trade_limits.daily_loss = risk_log.pre.daily_loss
  /\ trade_limits.daily_trades = risk_log.pre.daily_trades + 1

\* C19: limits_exceeded() is true exactly when a configured daily loss limit
\* is reached (daily_loss <= -|max|), or a configured daily trade count is
\* passed, or a configured hourly trade count is passed; with no limit
\* configured it is false and the kill switch never trips.
C19_LimitsExceeded ==
  /\ risk_log.op = "limits_exceeded" =>
       (risk_log.exceeded <=>
          \/ /\ limits_cfg.max_daily_loss # NoLimit
             /\ trade_limits.daily_loss <= -Abs(limits_cfg.max_daily_loss)
          \/ /\ limits_cfg.max_trades_per_day # NoLimit
             /\ trade_limits.daily_trades > limits_cfg.max_trades_per_day
          \/ /\ limits_cfg.max_trades_per_hour # NoLimit
             /\ trade_limits.hourly_trades > limits_cfg.max_trades_per_hour)
  /\ limits_cfg = DefaultLimits => (~risk_log.exceeded /\ is_trading_allowed)

\* With no limit configured, limits_exceeded() is asked after trades and
\* losses were recorded.
C19_Witness ==
  /\ risk_log.op = "limits_exceeded"
  /\ limits_cfg = DefaultLimits
  /\ trade_limits.daily_trades = MaxCount
  /\ trade_limits.daily_loss < 0
  /\ ~risk_log.exceeded

-----------------------------------------------------------------------------
\* Claims on the PnL watermark and the checkpoint

C20_CheckpointRoundTrip ==
  /\ (pnl_log.op = "start" /\ pnl_log.had_saved) =>
       /\ load_checkpoint(checkpoint_file).last_pnl_check_ms = pnl_log.loaded
       /\ last_pnl_check_ms = pnl_log.loaded
  /\ (pnl_log.op = "attribute" /\ pnl_log.after_start /\ pnl_log.had_saved) =>
       pnl_log.start = pnl_log.loaded

\* A start-up read a two-digit watermark and the attribution after it ran.
C20_Witness ==
  /\ pnl_log.op = "attribute"
  /\ pnl_log.after_start
  /\ pnl_log.had_saved
  /\ pnl_log.loaded >= 10
  /\ pnl_log.start = pnl_log.loaded

-----------------------------------------------------------------------------
\* A fraction in lowest terms.
RECURSIVE GCD(_, _)
GCD(a, b) == IF b = 0 THEN a ELSE GCD(b, a % b)

Lowest(q) == LET g == GCD(Abs(q.num), Abs(q.den)) IN Rat(q.num \div g, q.den \div g)

\* a = b for fractions with positive denominators.
SameValue(a, b) == Lowest(a).num * Lowest(b).den = Lowest(b).num * Lowest(a).den

AllPositive(a) ==
  /\ a.equity > 0
  /\ Positive(a.risk_percent)
  /\ a.entry_price > 0
  /\ Positive(a.sl_percent)

\* C21: for positive equity, risk_percent, entry_price and sl_percent,
\* compute_position_size returns equity*risk_percent/(entry_price*sl_percent):
\* a size, strictly positive, whose loss over the stop distance
\* (qty*entry_price*sl_percent) is the equity put at risk
\* (equity*risk_percent); 10000, 0.001, 50000, 0.01 gives 0.02.
C21_SizeIsRiskOverStopDistance ==
  (calc_log.op = "compute_position_size" /\ AllPositive(calc_log.args)) =>
    LET a == calc_log.args
        q == calc_log.result
    IN /\ q # NoSize
       /\ q # ZeroDivision
       /\ Positive(q)
       /\ SameValue(Rat(Lowest(q).num * a.entry_price * a.sl_percent.num,
                        Lowest(q).den * a.sl_percent.den),
                    Rat(a.equity * a.risk_percent.num, a.risk_percent.den))
       /\ (a = SizerExample => Lowest(q) = Rat(1, 50))

C21_Witness ==
  /\ calc_log.op = "compute_position_size"
  /\ calc_log.args = SizerExample
  /\ calc_log.result # NoSize
  /\ Lowest(calc_log.result) = Rat(1, 50)

\* C22: when any of equity, risk_percent, entry_price or sl_percent is <= 0,
\* compute_position_size returns None and raises nothing, and an entry whose
\* size is None submits no order, commits no position and raises nothing.
C22_NoSizeNoOrder ==
  /\ (calc_log.op = "compute_position_size" /\ ~AllPositive(calc_log.args)) =>
       calc_log.result = NoSize
  /\ (calc_log.op = "enter" /\ calc_log.size = NoSize) =>
       /\ calc_log.submits = 0
       /\ ~calc_log.committed
       /\ calc_log.pos = NoPos
       /\ calc_log.exc = "none"

\* An entry with a size submits; one without, on a positive balance, does not.
C22_Witness ==
  /\ calc_log.op = "enter"
  /\ calc_log.equity > 0
  /\ calc_log.entry_price <= 0
  /\ calc_log.size = NoSize
  /\ calc_log.submits = 0

\* r is the largest multiple of step that is <= x.
FloorOf(x, step, r) ==
  /\ r % step = 0
  /\ r * x.den <= x.num
  /\ x.num < (r + step) * x.den

\* C23: for a non-negative quantity or price and a positive step or tick, the
\* rounded value is the largest multiple of the step that is <= the input: it
\* never exceeds the input and is less than one step below it.
C23_FloorToStep ==
  (calc_log.op = "round" /\ calc_log.x.num >= 0) =>
    /\ FloorOf(calc_log.x, calc_log.step, calc_log.result)
    /\ FloorOf(calc_log.x, StepSize, calc_log.qty)
    /\ FloorOf(calc_log.x, TickSize, calc_log.price)

\* An input strictly between two positive multiples of the step.
C23_Witness ==
  /\ calc_log.op = "round"
  /\ calc_log.step > 1
  /\ calc_log.result > 0
  /\ calc_log.result * calc_log.x.den < calc_log.x.num
  /\ 2 * calc_log.x.num > (2 * calc_log.result + calc_log.step) * calc_log.x.den

\* C24: when the floor-rounded quantity is <= 0, place_market_order ends in an
\* error and no order reaches the exchange; an order that reaches the exchange
\* has a positive quantity.
C24_NoOrderForZeroQuantity ==
  calc_log.op = "place_market_order" =>
    /\ FloorOf(calc_log.quantity, StepSize, calc_log.sent_qty) \/ calc_log.quantity.num < 0
    /\ calc_log.sent_qty <= 0 =>
         /\ calc_log.exc # "none"
         /\ calc_log.submits = 0
         /\ calc_log.exPos = NoPos
    /\ calc_log.submits > 0 => calc_log.sent_qty > 0

\* A positive quantity below one step with the filters loaded: rejected
\* by the manager itself.
C24_Witness ==
  /\ calc_log.op = "place_market_order"
  /\ filters_loaded
  /\ calc_log.quantity.num > 0
  /\ calc_log.sent_qty = 0
  /\ calc_log.exc = "BinanceAPIError"
  /\ calc_log.submits = 0

\* C25: a tracked position that was replaced by a different one (side,
\* quantity or entry price) since the manager set is_protected is not taken for
\* protected at the next protection decision: sync() keeps the protection as it
\* is only for the position the flag was set for; and when sync() finds the
\* exchange flat, the position is cleared and the flag reset.
C25_ReplacedPositionReprotected ==
  /\ (sync_log.decision = "keep" /\ sync_log.covered # NoPos) =>
       ~Differs(sync_log.covered, sync_log.decided)
  /\ (sync_log.decision = "flat" /\ sync_log.exc = "none") =>
       (position = NoPos /\ ~is_protected)

\* C26: when sync() finds no remote position, it attempts the cancel of every
\* order id it holds (a failed cancel of one leg does not keep it from the
\* other), clears the tracked position, and returns with both ids None and
\* is_protected False.
C26_FlatCancelsBothAndClears ==
  sync_log.view = "absent" =>
    /\ sync_log.cancels = (IF sync_log.pre_tp # NoId THEN 1 ELSE 0)
                           + (IF sync_log.pre_sl # NoId THEN 1 ELSE 0)
    /\ sync_log.exc = "none"
    /\ position = NoPos
    /\ tp_order_id = NoId
    /\ sl_order_id = NoId
    /\ ~is_protected

\* C27: when the market-order response carries no order id, or the fill query
\* answers no fills (an empty list or a zero total quantity), the entry leaves
\* the tracked position as it was (none: no position is made up), raises
\* nothing, and has called place_market_order once and not again.
C27_NoFillNoPosition ==
  calc_log.op = "enter" =>
    /\ calc_log.end \in {"no_order_id", "no_fills"} =>
         /\ calc_log.pos = NoPos
         /\ ~calc_log.committed
         /\ calc_log.market_calls = 1
         /\ calc_log.exc = "none"
    /\ (calc_log.market_calls = 1 /\ calc_log.exc = "none"
        /\ (calc_log.fills = <<>> \/ SumQty(calc_log.fills) = 0)) =>
         calc_log.pos = NoPos

\* The order was executed on the exchange, the fill query answered a fill of
\* zero quantity.
C27_Witness ==
  /\ calc_log.op = "enter"
  /\ calc_log.end = "no_fills"
  /\ calc_log.fills # <<>>
  /\ calc_log.exPos # NoPos
  /\ calc_log.pos = NoPos

\* C28: the Position committed on a confirmed fill has the side of the signal
\* (the side the exchange opens for the order: LONG by a BUY, SHORT by a SELL),
\* the sum of the fill quantities as quantity and the quantity-weighted average
\* of the fill prices as entry price; compute_avg_fill returns that sum and
\* that average for any fills of positive total quantity.
C28_CommittedPositionFromFills ==
  /\ (calc_log.op = "enter" /\ calc_log.committed) =>
       /\ calc_log.pos.side = calc_log.signal
       /\ calc_log.exPos # NoPos
       /\ calc_log.pos.side = calc_log.exPos.side
       /\ calc_log.pos.quantity = SumQty(calc_log.fills)
       /\ calc_log.pos.entry_price * SumQty(calc_log.fills) = SumQuote(calc_log.fills)
  /\ (calc_log.op = "compute_avg_fill" /\ SumQty(calc_log.trades) > 0) =>
       /\ calc_log.result # NoFill
       /\ calc_log.result.qty = SumQty(calc_log.trades)
       /\ calc_log.result.price.num * SumQty(calc_log.trades)
            = SumQuote(calc_log.trades) * calc_log.result.price.den

C28_Witness ==
  /\ calc_log.op = "enter"
  /\ calc_log.committed
  /\ calc_log.signal = "SHORT"
  /\ Len(calc_log.fills) = 2
  /\ calc_log.pos.quantity = BaseQty

\* a < b for fractions with positive denominators.
Less(a, b) == a.num * b.den < b.num * a.den

\* entry * (1 + percent) and entry * (1 - percent)
Above(entry, percent) == Rat(entry * (percent.den + percent.num), percent.den)
Below(entry, percent) == Rat(entry * (percent.den - percent.num), percent.den)

\* C29: the protective orders go out on the closing side (SELL for a LONG
\* position, BUY for a SHORT one), the take profit priced from
\* entry*(1+tp%) and the stop loss from entry*(1-sl%) for LONG, mirrored for
\* SHORT, each floored to the tick; the two prices lie on opposite sides of
\* the entry price; entry 50010 LONG at 1%/1% gives 50510.1 and 49509.9.
C29_ProtectionSideAndPrices ==
  calc_log.op = "place_protection" =>
    LET pos == calc_log.pos
        long == pos.side = "LONG"
        entry == Rat(pos.entry_price, 1)
        tp == IF long THEN Above(pos.entry_price, TP_PERCENT)
              ELSE Below(pos.entry_price, TP_PERCENT)
        sl == IF long THEN Below(pos.entry_price, SL_PERCENT)
              ELSE Above(pos.entry_price, SL_PERCENT)
    IN /\ \A r \in calc_log.requests :
            /\ r.side = (IF long THEN "SELL" ELSE "BUY")
            /\ FloorOf(IF r.kind = "TP" THEN tp ELSE sl, TickSize, r.stopPrice)
       /\ SameValue(calc_log.prices.tp, tp)
       /\ SameValue(calc_log.prices.sl, sl)
       /\ IF long
          THEN Less(calc_log.prices.sl, entry) /\ Less(entry, calc_log.prices.tp)
          ELSE Less(calc_log.prices.tp, entry) /\ Less(entry, calc_log.prices.sl)
       /\ (long /\ pos.entry_price = 500100) =>
            /\ Lowest(calc_log.prices.tp) = Rat(505101, 1)
            /\ Lowest(calc_log.prices.sl) = Rat(495099, 1)

\* Both legs of a SHORT position went out.
C29_Witness ==
  /\ calc_log.op = "place_protection"
  /\ calc_log.pos.side = "SHORT"
  /\ calc_log.exc = "none"
  /\ calc_log.tp # NoId
  /\ calc_log.sl # NoId
  /\ Cardinality(calc_log.requests) = 2

RECURSIVE Doubling(_, _)
\* n delays, each the double of the one before, from first on.
Doubling(first, n) ==
  IF n = 0 THEN <<>>
  ELSE <<first>> \o Doubling([first EXCEPT !.num = @ * 2], n - 1)

\* C30: a wrapped transport call invokes the request at most max_retries + 1
\* = 4 times, sleeps 0.5 s, 1 s, 2 s between the invocations, and re-raises
\* the transport error of the last one; only a transport error is followed by
\* another invocation: a BinanceAPIError ends the call where it is raised, after
\* one invocation when the first answer is one.
C30_BoundedRetryTransportOnly ==
  calc_log.op = "retry" =>
    LET r == calc_log.result
        a == calc_log.attempts
    IN /\ r.calls <= MAX_RETRIES + 1
       /\ r.calls <= 4
       /\ r.sleeps = Doubling([num |-> 1, den |-> 2], r.calls - 1)
       /\ \A k \in 1..(r.calls - 1) : a[k] \in TransportErrors
       /\ (r.final = "transport") <=> (\A k \in 1..(MAX_RETRIES + 1) : a[k] \in TransportErrors)
       /\ r.final # "transport" => r.final = a[r.calls]
       /\ a[1] = "api_error" => (r.calls = 1 /\ r.final = "api_error")

\* Four timeouts: three sleeps, then the error leaves the wrapper.
C30_Witness ==
  /\ calc_log.op = "retry"
  /\ calc_log.result.calls = MAX_RETRIES + 1
  /\ calc_log.result.final = "transport"
  /\ Len(calc_log.result.sleeps) = MAX_RETRIES
  /\ calc_log.result.sleeps[MAX_RETRIES] = [num |-> 4, den |-> 2]

\* C31: a shutdown request takes effect only between cycles: when the loop
\* has stopped on an interrupt, the cycle it was in had not submitted a market
\* order without also running TpSlManager.sync() after it.
C31_ShutdownOnlyBetweenCycles ==
  pc = "stopped" => ~(step_log.step = "entry" /\ step_log.submits > 0)

\* C32: save_checkpoint is atomic for a process that stops: at every point of
\* a save, and after a stop at any of them, the checkpoint file holds the
\* whole text it had before the save or the whole text the save writes, and
\* the load_checkpoint at the next start reads one of the two.
C32_SaveIsAtomic ==
  /\ checkpoint_file \in {save_log.old, save_log.new}
  /\ save_log.op = "load" =>
       save_log.loaded \in {load_checkpoint(save_log.old), load_checkpoint(save_log.new)}

\* A save that stopped with part of the new text written, and the next load.
C32_Witness ==
  /\ save_log.op = "load"
  /\ save_log.stopped_at = "dump"
  /\ save_log.old # save_log.new
  /\ save_log.old # NoCheckpoint
  /\ Len(tmp_file) > 0
  /\ Len(tmp_file) < Len(save_log.new)
  /\ save_log.loaded = load_checkpoint(save_log.old)

\* C33: process() entered while _in_cycle is set returns with no exchange
\* call and the flag still set; every other call of process(), whether it
\* returns or raises, leaves the flag clear. In the control loop the flag is
\* clear whenever process() is not running.
C33_InCycleFlag ==
  /\ ~in_cycle
  /\ calc_log.op = "process" =>
       IF calc_log.flag
       THEN /\ calc_log.in_cycle
            /\ calc_log.queries = 0
            /\ calc_log.market_calls = 0
            /\ calc_log.submits = 0
            /\ calc_log.exc = "none"
            /\ calc_log.pos = calc_log.local
            /\ calc_log.exPos = calc_log.remote
       ELSE ~calc_log.in_cycle

\* A call that raised after its market order reached the exchange.
C33_Witness ==
  /\ calc_log.op = "process"
  /\ ~calc_log.flag
  /\ calc_log.exc # "none"
  /\ calc_log.submits > 0
  /\ ~calc_log.in_cycle

\* C34: whatever times reset_if_needed and record_trade are called with,
\* in or out of order, the hour's trade count never exceeds the day's.
C34_HourlyWithinDaily == trade_limits.hourly_trades <= trade_limits.daily_trades

\* Trades were counted, and a call came with a time of an earlier day.
C34_Witness ==
  /\ risk_log.op = "record_trade"
  /\ risk_log.pre.hourly_trades > 0
  /\ day_of(risk_log.now) < risk_log.pre.current_day
  /\ trade_limits.hourly_trades = 1
  /\ trade_limits.daily_trades = 1

\* C35: at the end of every cycle of the control loop, a tracker without a
\* position goes with a manager without protective order ids and with
\* is_protected clear.
C35_NoIdsWithoutPosition ==
  (pc = "sleep" /\ position = NoPos) =>
    /\ tp_order_id = NoId
    /\ sl_order_id = NoId
    /\ ~is_protected

\* A cycle ends flat after one that ended protected with both ids held.
C35_Witness ==
  /\ pc = "sleep"
  /\ position = NoPos
  /\ step_log.step = "pnl"
  /\ sync_log.decision = "flat"
  /\ sync_log.pre_prot
  /\ sync_log.pre_tp # NoId
  /\ sync_log.pre_sl # NoId

\* A limit is unset or strictly positive.
PositiveOrUnset(limit) == limit = NoLimit \/ limit > 0

\* C36: with every configured limit strictly positive, trading is allowed at
\* the entry gate only when no limit is exceeded, so process() is not called
\* in a cycle whose limits are exceeded at the gate.
C36_GateOpenOnlyWithinLimits ==
  ( /\ pc = "entry"
    /\ PositiveOrUnset(limits_cfg.max_daily_loss)
    /\ PositiveOrUnset(limits_cfg.max_trades_per_day)
    /\ PositiveOrUnset(limits_cfg.max_trades_per_hour)
    /\ is_trading_allowed )
  => ~limits_exceeded(trade_limits, limits_cfg)

\* The gate is open again in the hour after the hourly limit was passed.
C36_Witness ==
  /\ pc = "entry"
  /\ is_trading_allowed
  /\ limits_cfg.max_trades_per_hour = 1
  /\ trade_limits.daily_trades = 2
  /\ trade_limits.hourly_trades = 0

\* C37: with MAX_TRADES_PER_DAY = N the day's trade count never goes beyond
\* N + 1: once the trade that passes N is recorded, the loop submits no entry
\* for the rest of that UTC day.
C37_DailyTradesAtMostOneOver ==
  limits_cfg.max_trades_per_day # NoLimit =>
    /\ trade_limits.daily_trades <= limits_cfg.max_trades_per_day + 1
    /\ (trade_limits.daily_trades > limits_cfg.max_trades_per_day
        /\ step_log.step = "entry") => step_log.submits = 0

\* The entry step of a cycle after the one that recorded trade N + 1.
C37_Witness ==
  /\ limits_cfg.max_trades_per_day = 1
  /\ trade_limits.daily_trades = 2
  /\ step_log.step = "entry"
  /\ step_log.outcome = "skipped"
  /\ day_of(clock) = trade_limits.current_day

\* C38: process() submits no market order when the exchange holds a position
\* for the symbol at the call, whatever the tracker holds and however the
\* reconciliation query ends.
C38_NoEntryWhileExchangeHolds ==
  (calc_log.op = "process" /\ calc_log.remote # NoPos) => calc_log.submits = 0

\* C39: a sync() whose account query fails while the tracker holds a position
\* and is_protected is set cancels nothing, places nothing, and leaves the
\* tracked position, both order ids and the flag as they were.
C39_FailedQueryKeepsProtection ==
  [][(/\ pc = "protect"
      /\ step_log'.step = "protect"
      /\ sync_log'.view = "failed"
      /\ is_protected
      /\ position # NoPos)
     => /\ sync_log'.places = 0
        /\ sync_log'.cancels = 0
        /\ UNCHANGED <<position, tp_order_id, sl_order_id, is_protected>>
        /\ UNCHANGED <<exPosition, exOrders, exOrphans>>]_vars

\* Such a sync() returned: the query failed with an API error on a protected
\* position with both ids held.
C39_Witness ==
  /\ step_log.step = "protect"
  /\ sync_log.view = "failed"
  /\ sync_log.exc = "none"
  /\ sync_log.pre_prot
  /\ sync_log.pre_tp # NoId
  /\ sync_log.pre_sl # NoId
  /\ position # NoPos
  /\ is_protected

\* C40: in a cycle whose entry step committed a new position, a sync() that
\* finds the position on the exchange and has no protective order refused
\* ends with is_protected set and both order ids held, and so does the cycle.
C40_NewPositionProtectedInCycle ==
  (/\ sync_log.entry = "committed"
   /\ sync_log.view = "present"
   /\ ~sync_log.leg_failed
   /\ sync_log.exc = "none")
  => /\ is_protected
     /\ tp_order_id # NoId
     /\ sl_order_id # NoId
     /\ sync_log.places = 2

\* The end of such a cycle.
C40_Witness ==
  /\ pc = "sleep"
  /\ sync_log.entry = "committed"
  /\ sync_log.view = "present"
  /\ sync_log.decision = "protect"
  /\ ~sync_log.leg_failed
  /\ sync_log.exc = "none"
  /\ is_protected
  /\ tp_order_id = TpId
  /\ sl_order_id = SlId

====
